---- MODULE Spec2Model ----
(***************************************************************************)
(* Verification model of the koota core: the hierarchical BitSet, the      *)
(* QueryEntitySet, entity identity and the destroy cascade.                *)
(*                                                                         *)
(* A 32-bit word (one element of a Uint32Array) is modelled as the set of  *)
(* its set bit positions, a subset of 0..31: `a & b` is intersection,      *)
(* `a | b` is union, `a & ~b` is set difference, `1 << i` is {i} and       *)
(* `v === 0` is v = {}.  A typed array is a sequence of words; the code's   *)
(* index i is position i + 1 of the sequence.                              *)
(***************************************************************************)
EXTENDS Integers, Sequences, FiniteSets, TLC

VARIABLES
    bs,        \* SpecBitSet: the BitSet under test
    lastOp,    \* SpecBitSet: per key, the most recent call that named it
    parity,    \* SpecBitSet: per key, parity of the state-changing calls
    lastCall,  \* SpecBitSet: the most recent call, its result, and the state before
    setA,      \* SpecAlg: first operand BitSet
    setB,      \* SpecAlg: second operand BitSet
    visits,    \* SpecAlg: keys passed to the visitor by the last set operation
    algCall,   \* SpecAlg: which set operation produced `visits`
    qes,       \* SpecQES: the QueryEntitySet under test
    stored,    \* SpecQES: per slot, the handle a caller has added and not removed since
    qLast,     \* SpecQES: the most recent call and the set before it
    world,         \* the world context: entity index, traits, masks, all-query, relation edges
    cachedQueue,   \* entity.ts: the module-level destroy queue
    cachedSet,     \* entity.ts: the module-level processed set
    dLast,         \* the most recent world call, its outcome and the state before it
    slotReleases,  \* per slot, how many times it has been released
    retiredAt,     \* per released handle, slotReleases of its slot right after its latest release
    sets,      \* SpecMany: the list of BitSets given to bitSetAndMany
    manyOut,   \* SpecMany: the last n-ary call and what it produced
    gset,      \* SpecGrow: the structure under growth: a BitSet, a QueryEntitySet or a mask table
    grow,      \* SpecGrow: which structure, the last call on it, its initial size, the largest index added
    qworld,    \* SpecQuery: the world a query is matched against: entity masks and relation pairs
    qres,      \* SpecQuery: the last matcher call: its arguments, its outcome, its relation lookups
    loop       \* SpecLoop: a call that may grow a structure, and where its doubling loop stands

bsVars == <<bs, lastOp, parity, lastCall>>
algVars == <<setA, setB, visits, algCall>>
qesVars == <<qes, stored, qLast>>
worldVars == <<world, cachedQueue, cachedSet, dLast, slotReleases, retiredAt>>
manyVars == <<sets, manyOut>>
growVars == <<gset, grow>>
queryVars == <<qworld, qres>>
loopVars == <<loop>>
restVars == <<manyVars, growVars, queryVars, loopVars>>
vars == <<bs, lastOp, parity, lastCall, setA, setB, visits, algCall, qes, stored, qLast,
          world, cachedQueue, cachedSet, dLast, slotReleases, retiredAt, sets, manyOut,
          gset, grow, qworld, qres, loop>>

-----------------------------------------------------------------------------
(* Typed arrays and 32-bit words *)

\* new Uint32Array(n)
ZeroWords(n) == [i \in 1..n |-> {}]

\* arr[i] used as an operand of a bit operation: a read past the end of a
\* typed array yields undefined, which a bit operation coerces to 0
ReadWord(arr, i) == IF i >= 0 /\ i < Len(arr) THEN arr[i + 1] ELSE {}

\* arr[i] = w: a write past the end of a typed array is ignored
WriteWord(arr, i, w) == IF i >= 0 /\ i < Len(arr) THEN [arr EXCEPT ![i + 1] = w] ELSE arr

\* newArr.set(oldArr): copy oldArr into the prefix of newArr
CopyInto(newArr, oldArr) ==
    [i \in 1..Len(newArr) |-> IF i <= Len(oldArr) THEN oldArr[i] ELSE newArr[i]]

Max(x, y) == IF x >= y THEN x ELSE y

\* tzcnt32: index of the lowest set bit, 32 for the zero word
tzcnt32(v) == IF v = {} THEN 32 ELSE CHOOSE b \in v : \A c \in v : b <= c

\* v & (v - 1): clear the lowest set bit
ClearLowest(v) == v \ {tzcnt32(v)}

-----------------------------------------------------------------------------
(* BitSet *)

INITIAL_CAPACITY == 1024

\* BitSet constructor
NewBitSet(capacity) ==
    LET bottomWords == (capacity + 31) \div 32
        topWords == (bottomWords + 31) \div 32
    IN [bottom |-> ZeroWords(bottomWords), top |-> ZeroWords(topWords),
        count |-> 0, capacity |-> capacity]

\* BitSet.has
BitSetHas(s, key) ==
    IF key >= s.capacity THEN FALSE
    ELSE ReadWord(s.bottom, key \div 32) \cap {key % 32} # {}

\* the doubling loop of grow: while (newCapacity < minCapacity) newCapacity *= 2
RECURSIVE GrowCapacity(_, _)
GrowCapacity(newCapacity, minCapacity) ==
    IF newCapacity < minCapacity THEN GrowCapacity(newCapacity * 2, minCapacity)
    ELSE newCapacity

\* BitSet.grow that allocates exactly minCapacity instead of doubling
BitSetGrow_Exact(s, minCapacity) ==
    LET newCapacity == Max(s.capacity, minCapacity)
        newBottomWords == (newCapacity + 31) \div 32
        newTopWords == (newBottomWords + 31) \div 32
    IN [s EXCEPT !.bottom = CopyInto(ZeroWords(newBottomWords), s.bottom),
                 !.top = CopyInto(ZeroWords(newTopWords), s.top),
                 !.capacity = newCapacity]

\* BitSet.grow
BitSetGrow(s, minCapacity) ==
    LET newCapacity == GrowCapacity(s.capacity, minCapacity)
        newBottomWords == (newCapacity + 31) \div 32
        newTopWords == (newBottomWords + 31) \div 32
    IN [s EXCEPT !.bottom = CopyInto(ZeroWords(newBottomWords), s.bottom),
                 !.top = CopyInto(ZeroWords(newTopWords), s.top),
                 !.capacity = newCapacity]

\* BitSet.add with count++ moved before the already-present test
BitSetAdd_CountAlways(s, key) ==
    LET g == IF key >= s.capacity THEN BitSetGrow(s, key + 1) ELSE s
        wordIdx == key \div 32
        bit == {key % 32}
    IN IF ReadWord(g.bottom, wordIdx) \cap bit # {}
       THEN [set |-> [g EXCEPT !.count = g.count + 1], ret |-> FALSE]
       ELSE [set |-> [g EXCEPT
                        !.bottom = WriteWord(g.bottom, wordIdx,
                                             ReadWord(g.bottom, wordIdx) \cup bit),
                        !.top = WriteWord(g.top, wordIdx \div 32,
                                          ReadWord(g.top, wordIdx \div 32) \cup {wordIdx % 32}),
                        !.count = g.count + 1],
             ret |-> TRUE]

\* BitSet.add: the set after the call and the returned boolean
BitSetAdd(s, key) ==
    LET g == IF key >= s.capacity THEN BitSetGrow(s, key + 1) ELSE s
        wordIdx == key \div 32
        bit == {key % 32}
    IN IF ReadWord(g.bottom, wordIdx) \cap bit # {}
       THEN [set |-> g, ret |-> FALSE]
       ELSE [set |-> [g EXCEPT
                        !.bottom = WriteWord(g.bottom, wordIdx,
                                             ReadWord(g.bottom, wordIdx) \cup bit),
                        !.top = WriteWord(g.top, wordIdx \div 32,
                                          ReadWord(g.top, wordIdx \div 32) \cup {wordIdx % 32}),
                        !.count = g.count + 1],
             ret |-> TRUE]

\* BitSet.remove that never clears the summary bit of the top level
BitSetRemove_KeepTop(s, key) ==
    LET wordIdx == key \div 32
        bit == {key % 32}
    IN IF key >= s.capacity THEN [set |-> s, ret |-> FALSE]
       ELSE IF ReadWord(s.bottom, wordIdx) \cap bit = {} THEN [set |-> s, ret |-> FALSE]
       ELSE [set |-> [s EXCEPT !.bottom = WriteWord(s.bottom, wordIdx,
                                                    ReadWord(s.bottom, wordIdx) \ bit),
                               !.count = s.count - 1],
             ret |-> TRUE]

\* BitSet.remove that zeroes the whole bottom word instead of the one bit
BitSetRemove_WholeWord(s, key) ==
    LET wordIdx == key \div 32
        bit == {key % 32}
    IN IF key >= s.capacity THEN [set |-> s, ret |-> FALSE]
       ELSE IF ReadWord(s.bottom, wordIdx) \cap bit = {} THEN [set |-> s, ret |-> FALSE]
       ELSE [set |-> [s EXCEPT !.bottom = WriteWord(s.bottom, wordIdx, {}),
                               !.top = WriteWord(s.top, wordIdx \div 32,
                                        ReadWord(s.top, wordIdx \div 32) \ {wordIdx % 32}),
                               !.count = s.count - 1],
             ret |-> TRUE]

\* BitSet.remove: the set after the call and the returned boolean
BitSetRemove(s, key) ==
    LET wordIdx == key \div 32
        bit == {key % 32}
        newBottom == WriteWord(s.bottom, wordIdx, ReadWord(s.bottom, wordIdx) \ bit)
        newTop == IF ReadWord(newBottom, wordIdx) = {}
                  THEN WriteWord(s.top, wordIdx \div 32,
                                 ReadWord(s.top, wordIdx \div 32) \ {wordIdx % 32})
                  ELSE s.top
    IN IF key >= s.capacity THEN [set |-> s, ret |-> FALSE]
       ELSE IF ReadWord(s.bottom, wordIdx) \cap bit = {} THEN [set |-> s, ret |-> FALSE]
       ELSE [set |-> [s EXCEPT !.bottom = newBottom, !.top = newTop,
                               !.count = s.count - 1],
             ret |-> TRUE]

\* BitSet.clear
BitSetClear(s) ==
    [s EXCEPT !.bottom = ZeroWords(Len(s.bottom)), !.top = ZeroWords(Len(s.top)),
              !.count = 0]

\* the inner while loop of every scan: visit (bottomIdx << 5) | bit for the bits
\* of bottomBits, lowest first
RECURSIVE ScanBottom(_, _)
ScanBottom(bottomBits, bottomIdx) ==
    IF bottomBits = {} THEN <<>>
    ELSE <<bottomIdx * 32 + tzcnt32(bottomBits)>>
         \o ScanBottom(ClearLowest(bottomBits), bottomIdx)

\* bitSetAnd, the while loop over one top word: for each bit of topBits, lowest
\* first, scan a.bottom[bottomIdx] & b.bottom[bottomIdx]
RECURSIVE AndTopWord(_, _, _, _)
AndTopWord(a, b, topBits, ti) ==
    IF topBits = {} THEN <<>>
    ELSE LET bottomIdx == ti * 32 + tzcnt32(topBits)
             bottomBits == ReadWord(a.bottom, bottomIdx) \cap ReadWord(b.bottom, bottomIdx)
         IN ScanBottom(bottomBits, bottomIdx) \o AndTopWord(a, b, ClearLowest(topBits), ti)

\* bitSetAnd, the for loop over ti = from .. topLen - 1
RECURSIVE AndFrom(_, _, _, _)
AndFrom(a, b, ti, topLen) ==
    IF ti >= topLen THEN <<>>
    ELSE AndTopWord(a, b, ReadWord(a.top, ti) \cap ReadWord(b.top, ti), ti)
         \o AndFrom(a, b, ti + 1, topLen)

Min(x, y) == IF x <= y THEN x ELSE y

\* bitSetAnd that tests the top level of both sets but scans a's bottom words only
bitSetAnd_BottomOfA(a, b) ==
    AndFrom(a, [b EXCEPT !.bottom = [i \in 1..Len(b.bottom) |-> 0..31]], 0,
            Min(Len(a.top), Len(b.top)))

\* bitSetAnd: the sequence of keys passed to fn, in call order
bitSetAnd(a, b) == AndFrom(a, b, 0, Min(Len(a.top), Len(b.top)))

\* bitSetAndNot, the while loop over one top word of a
RECURSIVE AndNotTopWord(_, _, _, _)
AndNotTopWord(a, b, topBits, ti) ==
    IF topBits = {} THEN <<>>
    ELSE LET bottomIdx == ti * 32 + tzcnt32(topBits)
             bBottom == IF bottomIdx < Len(b.bottom) THEN ReadWord(b.bottom, bottomIdx) ELSE {}
             bottomBits == ReadWord(a.bottom, bottomIdx) \ bBottom
         IN ScanBottom(bottomBits, bottomIdx) \o AndNotTopWord(a, b, ClearLowest(topBits), ti)

\* bitSetAndNot, the for loop over ti = from .. a.top.length - 1
RECURSIVE AndNotFrom(_, _, _)
AndNotFrom(a, b, ti) ==
    IF ti >= Len(a.top) THEN <<>>
    ELSE AndNotTopWord(a, b, ReadWord(a.top, ti), ti) \o AndNotFrom(a, b, ti + 1)

\* bitSetAndNot that stops at the shorter top array, as bitSetAnd does
bitSetAndNot_MinTopLen(a, b) ==
    AndNotFrom([a EXCEPT !.top = SubSeq(a.top, 1, Min(Len(a.top), Len(b.top)))], b, 0)

\* bitSetAndNot: the sequence of keys passed to fn, in call order
bitSetAndNot(a, b) == AndNotFrom(a, b, 0)

\* BitSet.forEach, the while loop over one top word
RECURSIVE ForEachTopWord(_, _, _)
ForEachTopWord(s, topBits, ti) ==
    IF topBits = {} THEN <<>>
    ELSE LET bottomIdx == ti * 32 + tzcnt32(topBits)
         IN ScanBottom(ReadWord(s.bottom, bottomIdx), bottomIdx)
            \o ForEachTopWord(s, ClearLowest(topBits), ti)

\* BitSet.forEach, the for loop over ti = from .. top.length - 1
RECURSIVE ForEachFrom(_, _)
ForEachFrom(s, ti) ==
    IF ti >= Len(s.top) THEN <<>>
    ELSE ForEachTopWord(s, ReadWord(s.top, ti), ti) \o ForEachFrom(s, ti + 1)

\* BitSet.forEach: the sequence of keys passed to fn, in call order
BitSetForEach(s) == ForEachFrom(s, 0)

\* Math.min(...sets.map((s) => s.top.length)) over sets[from ..], seeded with acc
RECURSIVE MinTopLen(_, _, _)
MinTopLen(ss, from, acc) ==
    IF from > Len(ss) THEN acc
    ELSE MinTopLen(ss, from + 1, Min(acc, Len(ss[from].top)))

\* bitSetAndMany, for (s = 1; s < sets.length; s++) topBits &= sets[s].top[ti]:
\* si is the position of sets[s] in the sequence, last the position the loop ends at
RECURSIVE AndAllTop(_, _, _, _, _)
AndAllTop(ss, ti, si, last, acc) ==
    IF si > last THEN acc
    ELSE AndAllTop(ss, ti, si + 1, last, acc \cap ReadWord(ss[si].top, ti))

\* bitSetAndMany, for (s = 1; s < sets.length; s++) bottomBits &= sets[s].bottom[bottomIdx]
RECURSIVE AndAllBottom(_, _, _, _, _)
AndAllBottom(ss, bottomIdx, si, last, acc) ==
    IF si > last THEN acc
    ELSE AndAllBottom(ss, bottomIdx, si + 1, last, acc \cap ReadWord(ss[si].bottom, bottomIdx))

\* bitSetAndMany, the while loop over one top word; last is the position of
\* the final set the inner for loops reach
RECURSIVE AndManyTopWord(_, _, _, _)
AndManyTopWord(ss, topBits, ti, last) ==
    IF topBits = {} THEN <<>>
    ELSE LET bottomIdx == ti * 32 + tzcnt32(topBits)
             bottomBits == AndAllBottom(ss, bottomIdx, 2, last,
                                        ReadWord(ss[1].bottom, bottomIdx))
         IN ScanBottom(bottomBits, bottomIdx)
            \o AndManyTopWord(ss, ClearLowest(topBits), ti, last)

\* bitSetAndMany, the for loop over ti = from .. topLen - 1
RECURSIVE AndManyFrom(_, _, _, _)
AndManyFrom(ss, ti, topLen, last) ==
    IF ti >= topLen THEN <<>>
    ELSE AndManyTopWord(ss, AndAllTop(ss, ti, 2, last, ReadWord(ss[1].top, ti)), ti, last)
         \o AndManyFrom(ss, ti + 1, topLen, last)

\* bitSetAndMany whose inner for loops stop one set early (s < sets.length - 1)
bitSetAndMany_SkipLast(ss) ==
    IF Len(ss) = 0 THEN <<>>
    ELSE IF Len(ss) = 1 THEN BitSetForEach(ss[1])
    ELSE IF Len(ss) = 2 THEN bitSetAnd(ss[1], ss[2])
    ELSE AndManyFrom(ss, 0, MinTopLen(ss, 2, Len(ss[1].top)), Len(ss) - 1)

\* bitSetAndMany: the sequence of keys passed to fn, in call order
bitSetAndMany(ss) ==
    IF Len(ss) = 0 THEN <<>>
    ELSE IF Len(ss) = 1 THEN BitSetForEach(ss[1])
    ELSE IF Len(ss) = 2 THEN bitSetAnd(ss[1], ss[2])
    ELSE AndManyFrom(ss, 0, MinTopLen(ss, 2, Len(ss[1].top)), Len(ss))

\* bitSetIsSubset, the while loop over one top word of a: FALSE as soon as a
\* bottom word of a has a bit that b's word lacks
RECURSIVE SubsetTopWord(_, _, _, _)
SubsetTopWord(a, b, topBits, ti) ==
    IF topBits = {} THEN TRUE
    ELSE LET bottomIdx == ti * 32 + tzcnt32(topBits)
             aWord == ReadWord(a.bottom, bottomIdx)
             bWord == IF bottomIdx < Len(b.bottom) THEN ReadWord(b.bottom, bottomIdx) ELSE {}
         IN IF aWord \cap bWord # aWord THEN FALSE
            ELSE SubsetTopWord(a, b, ClearLowest(topBits), ti)

\* bitSetIsSubset, the for loop over ti = from .. topLen - 1
RECURSIVE SubsetFrom(_, _, _, _)
SubsetFrom(a, b, ti, topLen) ==
    IF ti >= topLen THEN TRUE
    ELSE IF ~SubsetTopWord(a, b, ReadWord(a.top, ti), ti) THEN FALSE
    ELSE SubsetFrom(a, b, ti + 1, topLen)

\* bitSetIsSubset that stops at the shorter top array, as bitSetAnd does
bitSetIsSubset_MinTopLen(a, b) == SubsetFrom(a, b, 0, Min(Len(a.top), Len(b.top)))

\* bitSetIsSubset: the returned boolean
bitSetIsSubset(a, b) == SubsetFrom(a, b, 0, Len(a.top))

-----------------------------------------------------------------------------
(* Entity handles *)

\* width of the slot index (entity id) field of a packed handle
ENTITY_ID_BITS == 20

\* width of the reuse-generation field of a packed handle.  The handle is a
\* 32-bit integer with 20 bits of entity id, so the field has at most 12 bits;
\* the model takes a narrow field to reach the wrap of the generation in few
\* releases
GENERATION_BITS == 2

RECURSIVE Pow2(_)
Pow2(n) == IF n = 0 THEN 1 ELSE 2 * Pow2(n - 1)

\* 1 << ENTITY_ID_BITS: the number of slot indices
ENTITY_ID_RANGE == Pow2(ENTITY_ID_BITS)

\* 1 << GENERATION_BITS: the number of reuse generations
GENERATION_RANGE == Pow2(GENERATION_BITS)

\* slotOf: the low ENTITY_ID_BITS bits of the handle
getEntityId(entity) == entity % ENTITY_ID_RANGE

\* generationOf: the GENERATION_BITS bits above the entity id
getEntityGeneration(entity) == (entity \div ENTITY_ID_RANGE) % GENERATION_RANGE

\* worldOf: the bits above the generation
getEntityWorldId(entity) == entity \div (ENTITY_ID_RANGE * GENERATION_RANGE)

\* the packed handle {world id, reuse generation, slot index}
packEntity(worldId, generation, entityId) ==
    worldId * (ENTITY_ID_RANGE * GENERATION_RANGE)
    + (generation % GENERATION_RANGE) * ENTITY_ID_RANGE
    + (entityId % ENTITY_ID_RANGE)

\* the value of a missing array element or map entry
Undefined == -1

-----------------------------------------------------------------------------
(* QueryEntitySet *)

\* QueryEntitySet constructor
NewQueryEntitySet(capacity) ==
    [bottom |-> ZeroWords((capacity + 31) \div 32), capacity |-> capacity,
     dense |-> <<>>, sparse |-> <<>>, cursor |-> 0]

\* the plain arrays _dense and _sparse are functions from the indices that
\* have been assigned to the values assigned; every other index is a hole

\* this._dense[i]
DenseAt(q, i) == IF i \in DOMAIN q.dense THEN q.dense[i] ELSE Undefined

\* this._sparse[eid]
SparseAt(q, eid) == IF eid \in DOMAIN q.sparse THEN q.sparse[eid] ELSE Undefined

\* arr[i] = v on a plain array
ArraySet(arr, i, v) ==
    IF i < 0 THEN arr
    ELSE [j \in DOMAIN arr \cup {i} |-> IF j = i THEN v ELSE arr[j]]

\* QueryEntitySet.has without the comparison of the stored handle
QESHas_BitOnly(q, entity) ==
    LET eid == getEntityId(entity)
    IN IF eid >= q.capacity THEN FALSE
       ELSE ReadWord(q.bottom, eid \div 32) \cap {eid % 32} # {}

\* QueryEntitySet.has
QESHas(q, entity) ==
    LET eid == getEntityId(entity)
    IN IF eid >= q.capacity THEN FALSE
       ELSE IF ReadWord(q.bottom, eid \div 32) \cap {eid % 32} = {} THEN FALSE
       ELSE DenseAt(q, SparseAt(q, eid)) = entity

\* QueryEntitySet.grow
QESGrow(q, minCapacity) ==
    LET newCapacity == GrowCapacity(q.capacity, minCapacity)
        newWords == (newCapacity + 31) \div 32
    IN [q EXCEPT !.bottom = CopyInto(ZeroWords(newWords), q.bottom),
                 !.capacity = newCapacity]

\* QueryEntitySet.add that appends a handle of another generation instead of
\* overwriting the stale one
QESAdd_AlwaysAppend(q, entity) ==
    LET eid == getEntityId(entity)
        g == IF eid >= q.capacity THEN QESGrow(q, eid + 1) ELSE q
        wordIdx == eid \div 32
        bit == {eid % 32}
    IN IF ReadWord(g.bottom, wordIdx) \cap bit # {} /\ DenseAt(g, SparseAt(g, eid)) = entity
       THEN g
       ELSE [g EXCEPT !.bottom = WriteWord(g.bottom, wordIdx,
                                           ReadWord(g.bottom, wordIdx) \cup bit),
                      !.sparse = ArraySet(g.sparse, eid, g.cursor),
                      !.dense = ArraySet(g.dense, g.cursor, entity),
                      !.cursor = g.cursor + 1]

\* QueryEntitySet.add that returns as soon as the membership bit is set
QESAdd_KeepStale(q, entity) ==
    LET eid == getEntityId(entity)
        g == IF eid >= q.capacity THEN QESGrow(q, eid + 1) ELSE q
        wordIdx == eid \div 32
        bit == {eid % 32}
    IN IF ReadWord(g.bottom, wordIdx) \cap bit # {}
       THEN g
       ELSE [g EXCEPT !.bottom = WriteWord(g.bottom, wordIdx,
                                           ReadWord(g.bottom, wordIdx) \cup bit),
                      !.sparse = ArraySet(g.sparse, eid, g.cursor),
                      !.dense = ArraySet(g.dense, g.cursor, entity),
                      !.cursor = g.cursor + 1]

\* QueryEntitySet.add
QESAdd(q, entity) ==
    LET eid == getEntityId(entity)
        g == IF eid >= q.capacity THEN QESGrow(q, eid + 1) ELSE q
        wordIdx == eid \div 32
        bit == {eid % 32}
        existingIdx == SparseAt(g, eid)
    IN IF ReadWord(g.bottom, wordIdx) \cap bit # {}
       THEN IF DenseAt(g, existingIdx) = entity THEN g
            ELSE [g EXCEPT !.dense = ArraySet(g.dense, existingIdx, entity)]
       ELSE [g EXCEPT !.bottom = WriteWord(g.bottom, wordIdx,
                                           ReadWord(g.bottom, wordIdx) \cup bit),
                      !.sparse = ArraySet(g.sparse, eid, g.cursor),
                      !.dense = ArraySet(g.dense, g.cursor, entity),
                      !.cursor = g.cursor + 1]

\* QueryEntitySet.remove that moves the last dense entry without updating
\* its sparse pointer
QESRemove_StaleSparse(q, entity) ==
    LET eid == getEntityId(entity)
        wordIdx == eid \div 32
        bit == {eid % 32}
        index == SparseAt(q, eid)
        cursor == q.cursor - 1
        swapped == DenseAt(q, cursor)
        cleared == [q EXCEPT !.bottom = WriteWord(q.bottom, wordIdx,
                                                  ReadWord(q.bottom, wordIdx) \ bit),
                             !.cursor = cursor]
    IN IF eid >= q.capacity THEN q
       ELSE IF ReadWord(q.bottom, wordIdx) \cap bit = {} THEN q
       ELSE IF DenseAt(q, index) # entity THEN q
       ELSE IF index # cursor
            THEN [cleared EXCEPT !.dense = ArraySet(q.dense, index, swapped)]
            ELSE cleared

\* QueryEntitySet.remove that drops the last dense entry instead of moving it
QESRemove_DropLast(q, entity) ==
    LET eid == getEntityId(entity)
        wordIdx == eid \div 32
        bit == {eid % 32}
        index == SparseAt(q, eid)
    IN IF eid >= q.capacity THEN q
       ELSE IF ReadWord(q.bottom, wordIdx) \cap bit = {} THEN q
       ELSE IF DenseAt(q, index) # entity THEN q
       ELSE [q EXCEPT !.bottom = WriteWord(q.bottom, wordIdx,
                                           ReadWord(q.bottom, wordIdx) \ bit),
                      !.cursor = q.cursor - 1]

\* QueryEntitySet.remove
QESRemove(q, entity) ==
    LET eid == getEntityId(entity)
        wordIdx == eid \div 32
        bit == {eid % 32}
        index == SparseAt(q, eid)
        cursor == q.cursor - 1
        swapped == DenseAt(q, cursor)
        cleared == [q EXCEPT !.bottom = WriteWord(q.bottom, wordIdx,
                                                  ReadWord(q.bottom, wordIdx) \ bit),
                             !.cursor = cursor]
    IN IF eid >= q.capacity THEN q
       ELSE IF ReadWord(q.bottom, wordIdx) \cap bit = {} THEN q
       ELSE IF DenseAt(q, index) # entity THEN q
       ELSE IF index # cursor
            THEN [cleared EXCEPT !.dense = ArraySet(q.dense, index, swapped),
                                 !.sparse = ArraySet(q.sparse, getEntityId(swapped), index)]
            ELSE cleared

\* QueryEntitySet.clear, the loop from dense index i
RECURSIVE QESClearFrom(_, _)
QESClearFrom(q, i) ==
    IF i >= q.cursor THEN q
    ELSE QESClearFrom([q EXCEPT !.bottom =
                          WriteWord(q.bottom, getEntityId(DenseAt(q, i)) \div 32, {})],
                      i + 1)

\* QueryEntitySet.clear that resets the cursor and leaves the membership bits
QESClear_KeepBits(q) == [q EXCEPT !.cursor = 0]

\* QueryEntitySet.clear
QESClear(q) == [QESClearFrom(q, 0) EXCEPT !.cursor = 0]

\* get dense: this._dense.slice(0, this._cursor)
QESDense(q) == [i \in 1..q.cursor |-> DenseAt(q, i - 1)]

\* get size
QESSize(q) == q.cursor

-----------------------------------------------------------------------------
(* Entity identity: the slot allocator behind allocateEntity / releaseEntity *)

\* map.set(key, value)
MapSet(map, key, value) == [k \in DOMAIN map \cup {key} |-> IF k = key THEN value ELSE map[k]]

\* the id of the one world of the model
WORLD_ID == 0

\* a fresh entity index: no slot issued, empty released-slot pool
NewEntityIndex == [generation |-> <<>>, free |-> <<>>, maxId |-> 0, alive |-> {}]

\* the current reuse generation of a slot
GenerationOf(index, id) == IF id \in DOMAIN index.generation THEN index.generation[id] ELSE 0

\* allocate: draw the most recently released slot, or extend the slot space;
\* the handle is stamped with the slot's current reuse generation
allocateEntity(index) ==
    LET recycled == index.free # <<>>
        id == IF recycled THEN index.free[Len(index.free)] ELSE index.maxId
    IN [index |-> [index EXCEPT
                      !.free = IF recycled THEN SubSeq(index.free, 1, Len(index.free) - 1)
                               ELSE index.free,
                      !.maxId = IF recycled THEN index.maxId ELSE index.maxId + 1,
                      !.alive = index.alive \cup {id}],
        entity |-> packEntity(WORLD_ID, GenerationOf(index, id), id)]

\* release that leaves the reuse generation of the slot as it is
releaseEntity_NoBump(index, entity) ==
    LET id == getEntityId(entity)
    IN [index EXCEPT !.free = Append(index.free, id), !.alive = index.alive \ {id}]

\* release: return the slot to the free pool and increment its reuse
\* generation, within the width of the generation field of the handle
releaseEntity(index, entity) ==
    LET id == getEntityId(entity)
    IN [index EXCEPT
          !.generation = MapSet(index.generation, id,
                                  (GenerationOf(index, id) + 1) % GENERATION_RANGE),
          !.free = Append(index.free, id),
          !.alive = index.alive \ {id}]

\* world.has(entity): the slot is live and its current handle is exactly entity
WorldHas(w, entity) ==
    LET id == getEntityId(entity)
    IN /\ id \in w.entityIndex.alive
       /\ packEntity(WORLD_ID, GenerationOf(w.entityIndex, id), id) = entity

-----------------------------------------------------------------------------
(* Entity masks *)

\* the doubling loop of ensureEntityMaskSize: while (newLen <= eid) newLen *= 2
RECURSIVE GrowMaskLen(_, _)
GrowMaskLen(newLen, eid) == IF newLen <= eid THEN GrowMaskLen(newLen * 2, eid) ELSE newLen

\* ensureEntityMaskSize; generationId is the index of the trait bank
ensureEntityMaskSize(masks, generationId, eid) ==
    LET arr == masks[generationId + 1]
    IN IF eid < Len(arr) THEN masks
       ELSE [masks EXCEPT ![generationId + 1] =
                CopyInto(ZeroWords(GrowMaskLen(Len(arr), eid)), arr)]

-----------------------------------------------------------------------------
(* Query matcher *)

\* A QueryInstance is a record: traitCount is traitInstances.all.length,
\* generations the list of touched trait banks, staticBitmasks the list of
\* {required, forbidden, or} words aligned with it, relationFilters the list of
\* [relation, target] pairs (hasFilters is FALSE when the field is absent) and
\* tracking the set of recorded events (hasTracking is FALSE when absent).
\* An outcome is what a call returned, or that it threw.

Returned(b) == [ret |-> b, threw |-> FALSE]
Threw == [ret |-> FALSE, threw |-> TRUE]

\* genMasks ? (genMasks[eid] | 0) : 0  with genMasks = entityMasks[generationId]
EntityMaskOf(entityMasks, generationId, eid) ==
    IF generationId < Len(entityMasks) THEN ReadWord(entityMasks[generationId + 1], eid)
    ELSE {}

\* the three tests both paths of checkQuery apply to one bank: TRUE when none rejects
BankTests(bitmask, entityMask) ==
    IF bitmask.forbidden # {} /\ (entityMask \cap bitmask.forbidden) # {} THEN FALSE
    ELSE IF bitmask.required # {} /\ (entityMask \cap bitmask.required) # bitmask.required
    THEN FALSE
    ELSE IF bitmask.or # {} /\ (entityMask \cap bitmask.or) = {} THEN FALSE
    ELSE TRUE

\* checkQuery, the loop over i = from .. generationsLen - 1
RECURSIVE CheckBanks(_, _, _, _)
CheckBanks(entityMasks, query, eid, i) ==
    IF i >= Len(query.generations) THEN TRUE
    ELSE IF i >= Len(query.staticBitmasks) THEN CheckBanks(entityMasks, query, eid, i + 1)
    ELSE LET bitmask == query.staticBitmasks[i + 1]
             entityMask == EntityMaskOf(entityMasks, query.generations[i + 1], eid)
         IN IF bitmask.forbidden = {} /\ bitmask.required = {} /\ bitmask.or = {} THEN FALSE
            ELSE IF ~BankTests(bitmask, entityMask) THEN FALSE
            ELSE CheckBanks(entityMasks, query, eid, i + 1)

\* checkQuery that indexes the bank's mask array without testing that it exists
checkQuery_NoBankGuard(entityMasks, query, entity) ==
    LET eid == getEntityId(entity)
    IN IF query.traitCount = 0 THEN Returned(FALSE)
       ELSE IF \E i \in 1..Len(query.generations) : query.generations[i] >= Len(entityMasks)
       THEN Threw
       ELSE IF Len(query.generations) = 1
       THEN IF Len(query.staticBitmasks) = 0 THEN Threw
            ELSE Returned(BankTests(query.staticBitmasks[1],
                                    EntityMaskOf(entityMasks, query.generations[1], eid)))
       ELSE Returned(CheckBanks(entityMasks, query, eid, 0))

\* checkQuery: a single touched bank reads staticBitmasks[0] unguarded
checkQuery(entityMasks, query, entity) ==
    LET eid == getEntityId(entity)
    IN IF query.traitCount = 0 THEN Returned(FALSE)
       ELSE IF Len(query.generations) = 1
       THEN IF Len(query.staticBitmasks) = 0 THEN Threw
            ELSE Returned(BankTests(query.staticBitmasks[1],
                                    EntityMaskOf(entityMasks, query.generations[1], eid)))
       ELSE Returned(CheckBanks(entityMasks, query, eid, 0))

\* hasRelationPair(world, entity, filter): the entity is a source of the
\* filter's relation pointing at the filter's target
hasRelationPair(edges, entity, filter) == <<filter.relation, entity, filter.target>> \in edges

\* the for loop over filters[i ..] of both relation variants: the outcome and
\* the indices of the filters handed to hasRelationPair, in call order
RECURSIVE CheckFilters(_, _, _, _)
CheckFilters(edges, entity, filters, i) ==
    IF i >= Len(filters) THEN [out |-> Returned(TRUE), lookups |-> <<>>]
    ELSE IF ~hasRelationPair(edges, entity, filters[i + 1])
    THEN [out |-> Returned(FALSE), lookups |-> <<i>>]
    ELSE LET rest == CheckFilters(edges, entity, filters, i + 1)
         IN [out |-> rest.out, lookups |-> <<i>> \o rest.lookups]

\* the part both relation variants share after the first check passed:
\* filters.length of an absent relationFilters is a TypeError
FiltersAfter(edges, query, entity) ==
    IF ~query.hasFilters THEN [out |-> Threw, lookups |-> <<>>]
    ELSE CheckFilters(edges, entity, query.relationFilters, 0)

\* checkQueryWithRelations that accepts as soon as one filter holds
checkQueryWithRelations_AnyFilter(entityMasks, edges, query, entity) ==
    LET first == checkQuery(entityMasks, query, entity)
        n == IF query.hasFilters THEN Len(query.relationFilters) ELSE 0
        held == {i \in 1..n : hasRelationPair(edges, entity, query.relationFilters[i])}
        upTo == IF held = {} THEN n ELSE CHOOSE i \in held : \A j \in held : i <= j
    IN IF first.threw THEN [out |-> Threw, lookups |-> <<>>]
       ELSE IF ~first.ret THEN [out |-> Returned(FALSE), lookups |-> <<>>]
       ELSE IF ~query.hasFilters THEN [out |-> Threw, lookups |-> <<>>]
       ELSE [out |-> Returned(held # {} \/ n = 0), lookups |-> [i \in 1..upTo |-> i - 1]]

\* checkQueryWithRelations that looks every filter up and combines at the end
checkQueryWithRelations_LookupAll(entityMasks, edges, query, entity) ==
    LET first == checkQuery(entityMasks, query, entity)
        n == IF query.hasFilters THEN Len(query.relationFilters) ELSE 0
        all == \A i \in 1..n : hasRelationPair(edges, entity, query.relationFilters[i])
    IN IF first.threw THEN [out |-> Threw, lookups |-> <<>>]
       ELSE IF ~query.hasFilters THEN [out |-> Threw, lookups |-> <<>>]
       ELSE [out |-> Returned(first.ret /\ all), lookups |-> [i \in 1..n |-> i - 1]]

\* checkQueryWithRelations
checkQueryWithRelations(entityMasks, edges, query, entity) ==
    LET first == checkQuery(entityMasks, query, entity)
    IN IF first.threw THEN [out |-> Threw, lookups |-> <<>>]
       ELSE IF ~first.ret THEN [out |-> Returned(FALSE), lookups |-> <<>>]
       ELSE FiltersAfter(edges, query, entity)

\* checkQueryTracking: the bitmask check, and the query's tracking state shows
\* the event for the trait bit and the entity; an absent tracking state does not match
checkQueryTracking(entityMasks, query, entity, eventType, eventGenerationId, eventBitflag) ==
    LET first == checkQuery(entityMasks, query, entity)
    IN IF first.threw THEN Threw
       ELSE IF ~first.ret THEN Returned(FALSE)
       ELSE IF ~query.hasTracking THEN Returned(FALSE)
       ELSE Returned([type |-> eventType, generationId |-> eventGenerationId,
                      bitflag |-> eventBitflag, eid |-> getEntityId(entity)]
                     \in query.tracking)

\* checkQueryTrackingWithRelations
checkQueryTrackingWithRelations(entityMasks, edges, query, entity, eventType, eventGenerationId, eventBitflag) ==
    LET first == checkQueryTracking(entityMasks, query, entity, eventType,
                                    eventGenerationId, eventBitflag)
    IN IF first.threw THEN [out |-> Threw, lookups |-> <<>>]
       ELSE IF ~first.ret THEN [out |-> Returned(FALSE), lookups |-> <<>>]
       ELSE FiltersAfter(edges, query, entity)

-----------------------------------------------------------------------------
(* Traits and relations *)

\* the autoDestroy option each relation of the world was defined with
RelationDefinitions == <<"source", "target", "none", "orphan">>

\* a relation as registered: at the definition surface `orphan` is a synonym
\* of `source`, the relation context holds `source` for both
createRelation(autoDestroy) ==
    [autoDestroy |-> IF autoDestroy = "orphan" THEN "source" ELSE autoDestroy]

\* the registered relations, in registration order, with their auto-destroy policy
Relations == [i \in 1..Len(RelationDefinitions) |-> createRelation(RelationDefinitions[i])]

\* plain (non-relation) traits, by trait id
PlainTraits == {0}

\* the trait id under which an entity holds its pairs of relation ri
RelationTrait(ri) == ri

\* every trait lives in bank 0, its bit position is its trait id
TraitBank(trait) == 0
TraitBit(trait) == trait

\* the traits of an entity; undefined entries read as the empty set
TraitsOf(w, entity) ==
    IF entity \in DOMAIN w.entityTraits THEN w.entityTraits[entity] ELSE {}

\* ctx.entityTraits.has(entity)
HasTraitEntry(w, entity) == entity \in DOMAIN w.entityTraits

\* ctx.entityTraits.delete(entity)
DeleteTraitEntry(w, entity) ==
    [w EXCEPT !.entityTraits = [e \in DOMAIN w.entityTraits \ {entity} |-> w.entityTraits[e]]]

\* addTrait for one trait: grow the bank to the entity's slot, set the bit,
\* record the trait
addTrait(w, entity, trait) ==
    LET eid == getEntityId(entity)
        masks == ensureEntityMaskSize(w.entityMasks, TraitBank(trait), eid)
        bank == masks[TraitBank(trait) + 1]
    IN [w EXCEPT
          !.entityMasks = [masks EXCEPT ![TraitBank(trait) + 1] =
                              WriteWord(bank, eid, ReadWord(bank, eid) \cup {TraitBit(trait)})],
          !.entityTraits = MapSet(w.entityTraits, entity, TraitsOf(w, entity) \cup {trait})]

\* addTrait(world, entity, ...traits)
RECURSIVE addTraits(_, _, _)
addTraits(w, entity, traits) ==
    IF traits = <<>> THEN w
    ELSE addTraits(addTrait(w, entity, Head(traits)), entity, Tail(traits))

\* removeTrait: clear the bit, forget the trait; removing a relation trait
\* drops every pair the entity holds of that relation
removeTrait(w, entity, trait) ==
    LET eid == getEntityId(entity)
        bank == w.entityMasks[TraitBank(trait) + 1]
    IN [w EXCEPT
          !.entityMasks = [@ EXCEPT ![TraitBank(trait) + 1] =
                              WriteWord(bank, eid, ReadWord(bank, eid) \ {TraitBit(trait)})],
          !.entityTraits = IF HasTraitEntry(w, entity)
                           THEN [@ EXCEPT ![entity] = @ \ {trait}] ELSE @,
          !.relationEdges = {p \in @ : ~(RelationTrait(p[1]) = trait /\ p[2] = entity)}]

\* a set of handles as an array, in ascending or descending handle order
RECURSIVE SetToSeq(_, _)
SetToSeq(S, ascending) ==
    IF S = {} THEN <<>>
    ELSE LET x == CHOOSE y \in S : \A z \in S : IF ascending THEN y <= z ELSE y >= z
         IN <<x>> \o SetToSeq(S \ {x}, ascending)

\* getEntitiesWithRelationTo: the sources holding a pair of relation ri that
\* targets entity, as a fresh array
getEntitiesWithRelationTo(w, ri, entity, ascending) ==
    SetToSeq({p[2] : p \in {q \in w.relationEdges : q[1] = ri /\ q[3] = entity}}, ascending)

\* getRelationTargets: the targets of the pairs of relation ri held by entity
getRelationTargets(w, ri, entity, ascending) ==
    SetToSeq({p[3] : p \in {q \in w.relationEdges : q[1] = ri /\ q[2] = entity}}, ascending)

\* cleanupRelationTarget: unlink the pair (relation ri, source -> target); the
\* source loses the relation trait with its last pair
cleanupRelationTarget(w, ri, source, target) ==
    LET edges == w.relationEdges \ {<<ri, source, target>>}
        unlinked == [w EXCEPT !.relationEdges = edges]
    IN IF \E p \in edges : p[1] = ri /\ p[2] = source THEN unlinked
       ELSE removeTrait(unlinked, source, RelationTrait(ri))

-----------------------------------------------------------------------------
(* createEntity and destroyEntity *)

\* a world right after construction: one trait bank of MaskInitLen rows, the
\* all-entities query registered and empty, no entity
MaskInitLen == 2

NewWorld ==
    [entityIndex |-> NewEntityIndex,
     entityTraits |-> <<>>,
     entityMasks |-> <<ZeroWords(MaskInitLen)>>,
     allQuery |-> NewQueryEntitySet(32),
     relationEdges |-> {},
     onRemove |-> {}]

\* createEntity; the world has no Not-queries registered, so the loop over
\* ctx.notQueries has no iteration; the new entity joins the all-entities query
createEntity(w, traits) ==
    LET a == allocateEntity(w.entityIndex)
        entity == a.entity
        w1 == [w EXCEPT !.entityIndex = a.index,
                        !.entityTraits = MapSet(w.entityTraits, entity, {}),
                        !.allQuery = QESAdd(w.allQuery, entity)]
    IN [world |-> addTraits(w1, entity, traits), entity |-> entity]

\* the state destroyEntity works on: the world, the two module-level
\* containers, the log of releaseEntity calls, the set of handles pushed onto
\* the queue, the handles releaseEntity was called with while the world did
\* not have them, and those it was called with while they still held a trait
DestroyState(w, queue, processed) ==
    [world |-> w, queue |-> queue, processed |-> processed, released |-> <<>>,
     pushed |-> {}, stale |-> {}, untidy |-> {}]

\* the loop over sources without the push of the source under policy `source`
RECURSIVE DestroySources_NoPush(_, _, _, _, _)
DestroySources_NoPush(d, ri, currentEntity, sources, si) ==
    IF si > Len(sources) THEN d
    ELSE LET source == sources[si]
         IN IF ~WorldHas(d.world, source)
            THEN DestroySources_NoPush(d, ri, currentEntity, sources, si + 1)
            ELSE DestroySources_NoPush(
                    [d EXCEPT !.world = cleanupRelationTarget(d.world, ri, source, currentEntity)],
                    ri, currentEntity, sources, si + 1)

\* the loop over sources that unlinks only the sources it queues
RECURSIVE DestroySources_UnlinkQueuedOnly(_, _, _, _, _)
DestroySources_UnlinkQueuedOnly(d, ri, currentEntity, sources, si) ==
    IF si > Len(sources) THEN d
    ELSE LET source == sources[si]
         IN IF ~WorldHas(d.world, source) \/ Relations[ri].autoDestroy # "source"
            THEN DestroySources_UnlinkQueuedOnly(d, ri, currentEntity, sources, si + 1)
            ELSE DestroySources_UnlinkQueuedOnly(
                    [d EXCEPT !.world = cleanupRelationTarget(d.world, ri, source,
                                                              currentEntity),
                              !.queue = Append(d.queue, source),
                              !.pushed = @ \cup {source}],
                    ri, currentEntity, sources, si + 1)

\* destroyEntity, the loop over sources[si .. ]
RECURSIVE DestroySources(_, _, _, _, _)
DestroySources(d, ri, currentEntity, sources, si) ==
    IF si > Len(sources) THEN d
    ELSE LET source == sources[si]
         IN IF ~WorldHas(d.world, source)
            THEN DestroySources(d, ri, currentEntity, sources, si + 1)
            ELSE DestroySources(
                 [d EXCEPT !.world = cleanupRelationTarget(d.world, ri, source, currentEntity),
                           !.queue = IF Relations[ri].autoDestroy = "source"
                                     THEN Append(d.queue, source) ELSE d.queue,
                           !.pushed = IF Relations[ri].autoDestroy = "source"
                                      THEN @ \cup {source} ELSE @],
                    ri, currentEntity, sources, si + 1)

\* destroyEntity, the loop over targets[ti .. ]
RECURSIVE DestroyTargets(_, _, _)
DestroyTargets(d, targets, ti) ==
    IF ti > Len(targets) THEN d
    ELSE LET target == targets[ti]
         IN IF ~WorldHas(d.world, target) THEN DestroyTargets(d, targets, ti + 1)
            ELSE DestroyTargets(
                    IF target \notin d.processed
                 THEN [d EXCEPT !.queue = Append(d.queue, target),
                                !.pushed = @ \cup {target}]
                 ELSE d,
                    targets, ti + 1)

\* the loop over relationsArr that queues the targets of the entity under
\* every policy
RECURSIVE DestroyRelations_TargetsAlways(_, _, _, _)
DestroyRelations_TargetsAlways(d, currentEntity, ri, ascending) ==
    IF ri > Len(Relations) THEN d
    ELSE LET sources == getEntitiesWithRelationTo(d.world, ri, currentEntity, ascending)
             d1 == DestroySources(d, ri, currentEntity, sources, 1)
             d2 == DestroyTargets(d1, getRelationTargets(d1.world, ri, currentEntity,
                                                         ascending), 1)
         IN DestroyRelations_TargetsAlways(d2, currentEntity, ri + 1, ascending)

\* destroyEntity, the loop over relationsArr[ri .. ]
RECURSIVE DestroyRelations(_, _, _, _)
DestroyRelations(d, currentEntity, ri, ascending) ==
    IF ri > Len(Relations) THEN d
    ELSE LET sources == getEntitiesWithRelationTo(d.world, ri, currentEntity, ascending)
             d1 == DestroySources(d, ri, currentEntity, sources, 1)
             d2 == IF Relations[ri].autoDestroy = "target"
                   THEN DestroyTargets(d1, getRelationTargets(d1.world, ri, currentEntity,
                                                               ascending), 1)
                   ELSE d1
         IN DestroyRelations(d2, currentEntity, ri + 1, ascending)

RECURSIVE destroyEntity(_, _, _, _, _)

\* the subscribers to the removal of a plain trait, run one after the other:
\* each destroys its victim if the world still has it, by a call of
\* destroyEntity, which works on the same module-level queue and processed set
RECURSIVE RunRemoveSubscribers(_, _, _)
RunRemoveSubscribers(d, victims, ascending) ==
    IF victims = <<>> THEN d
    ELSE LET victim == Head(victims)
             nested == destroyEntity(d.world, d.queue, d.processed, victim, ascending)
         IN RunRemoveSubscribers(
               IF ~WorldHas(d.world, victim) THEN d
               ELSE [d EXCEPT !.world = nested.world,
                              !.queue = nested.queue,
                              !.processed = nested.processed,
                              !.released = @ \o nested.released,
                              !.pushed = @ \cup nested.pushed,
                              !.stale = @ \cup nested.stale,
                              !.untidy = @ \cup nested.untidy],
               Tail(victims), ascending)

\* removeTrait as destroyEntity calls it: the trait is removed, then the
\* subscribers to the removal of a plain trait from this entity run
RemoveTraitNotify(d, entity, trait, ascending) ==
    LET d1 == [d EXCEPT !.world = removeTrait(d.world, entity, trait)]
        victims == IF trait \in PlainTraits /\ trait \in TraitsOf(d.world, entity)
                   THEN SetToSeq({s[2] : s \in {t \in d.world.onRemove : t[1] = entity}},
                                 ascending)
                   ELSE <<>>
    IN RunRemoveSubscribers(d1, victims, ascending)

\* destroyEntity, the loop over traitsArr
RECURSIVE DestroyTraits(_, _, _, _)
DestroyTraits(d, currentEntity, traitsArr, ascending) ==
    IF traitsArr = <<>> THEN d
    ELSE DestroyTraits(RemoveTraitNotify(d, currentEntity, Head(traitsArr), ascending),
                       currentEntity, Tail(traitsArr), ascending)

\* entityMasks[i][eid] = 0 for every bank i
ClearEntityMasks(masks, eid) == [i \in 1..Len(masks) |-> WriteWord(masks[i], eid, {})]

\* one iteration of the while loop that releases the handle and leaves the
\* entity in the all-entities query
DestroyOne_KeepInAllQuery(d, currentEntity, ascending) ==
    LET d1 == DestroyRelations([d EXCEPT !.processed = @ \cup {currentEntity}],
                               currentEntity, 1, ascending)
        d2 == IF HasTraitEntry(d1.world, currentEntity)
              THEN DestroyTraits(d1, currentEntity,
                                 SetToSeq(TraitsOf(d1.world, currentEntity), TRUE),
                                 ascending)
              ELSE d1
        w1 == d2.world
        w2 == [w1 EXCEPT !.entityIndex = releaseEntity(w1.entityIndex, currentEntity)]
        w3 == DeleteTraitEntry(w2, currentEntity)
        w4 == [w3 EXCEPT !.entityMasks = ClearEntityMasks(w3.entityMasks,
                                                          getEntityId(currentEntity))]
    IN [d2 EXCEPT !.world = w4, !.released = Append(d2.released, currentEntity),
                  !.stale = IF WorldHas(w1, currentEntity) THEN @ ELSE @ \cup {currentEntity},
                  !.untidy = IF TraitsOf(w1, currentEntity) = {} THEN @
                             ELSE @ \cup {currentEntity}]

\* destroyEntity, one iteration of the while loop after the processed test:
\* unlink and enqueue along the relations, remove the traits, release the
\* handle, leave the all-entities query, drop the trait entry, zero the masks
DestroyOne(d, currentEntity, ascending) ==
    LET d1 == DestroyRelations([d EXCEPT !.processed = @ \cup {currentEntity}],
                               currentEntity, 1, ascending)
        d2 == IF HasTraitEntry(d1.world, currentEntity)
              THEN DestroyTraits(d1, currentEntity,
                                 SetToSeq(TraitsOf(d1.world, currentEntity), TRUE),
                                 ascending)
              ELSE d1
        w1 == d2.world
        w2 == [w1 EXCEPT !.entityIndex = releaseEntity(w1.entityIndex, currentEntity),
                         !.allQuery = QESRemove(w1.allQuery, currentEntity)]
        w3 == DeleteTraitEntry(w2, currentEntity)
        w4 == [w3 EXCEPT !.entityMasks = ClearEntityMasks(w3.entityMasks,
                                                          getEntityId(currentEntity))]
    IN [d2 EXCEPT !.world = w4, !.released = Append(d2.released, currentEntity),
                  !.stale = IF WorldHas(w1, currentEntity) THEN @ ELSE @ \cup {currentEntity},
                  !.untidy = IF TraitsOf(w1, currentEntity) = {} THEN @
                             ELSE @ \cup {currentEntity}]

\* the while loop without the test of the processed set
RECURSIVE DestroyLoop_NoGuard(_, _)
DestroyLoop_NoGuard(d, ascending) ==
    IF d.queue = <<>> THEN d
    ELSE LET currentEntity == d.queue[Len(d.queue)]
             popped == [d EXCEPT !.queue = SubSeq(d.queue, 1, Len(d.queue) - 1)]
         IN DestroyLoop_NoGuard(DestroyOne(popped, currentEntity, ascending), ascending)

\* destroyEntity, the while loop
RECURSIVE DestroyLoop(_, _)
DestroyLoop(d, ascending) ==
    IF d.queue = <<>> THEN d
    ELSE LET currentEntity == d.queue[Len(d.queue)]
             popped == [d EXCEPT !.queue = SubSeq(d.queue, 1, Len(d.queue) - 1)]
         IN IF currentEntity \in popped.processed THEN DestroyLoop(popped, ascending)
            ELSE DestroyLoop(DestroyOne(popped, currentEntity, ascending), ascending)

\* destroyEntity with the existence test moved below the reset of the shared
\* queue and processed set
destroyEntity_ResetFirst(w, queue, processed, entity, ascending) ==
    IF ~WorldHas(w, entity)
    THEN DestroyState(w, <<entity>>, {}) @@ [threw |-> TRUE]
    ELSE DestroyLoop([DestroyState(w, <<entity>>, {}) EXCEPT !.pushed = {entity}],
                     ascending) @@ [threw |-> FALSE]

\* destroyEntity: the state when the call returns or throws
destroyEntity(w, queue, processed, entity, ascending) ==
    IF ~WorldHas(w, entity)
    THEN DestroyState(w, queue, processed) @@ [threw |-> TRUE]
    ELSE DestroyLoop([DestroyState(w, <<entity>>, {}) EXCEPT !.pushed = {entity}],
                     ascending) @@ [threw |-> FALSE]

-----------------------------------------------------------------------------
(* Inputs *)

\* keys the operations are called with: 5 and 31 share the first bottom word,
\* 32 opens the second bottom word and sits on the capacity-32 boundary, 1024
\* opens the second top word and sits on the default-capacity boundary
Keys == {5, 31, 32, 1024}

\* capacities a BitSet is constructed with
InitCaps == {32, INITIAL_CAPACITY}

-----------------------------------------------------------------------------
(* SpecBitSet: one BitSet driven by add / remove / clear *)

NoCall == [op |-> "none", key |-> 0, ret |-> FALSE, was |-> FALSE, capBefore |-> 0,
           countBefore |-> 0]

BitSetIdle ==
    /\ bs = NewBitSet(32)
    /\ lastOp = [k \in Keys |-> "none"]
    /\ parity = [k \in Keys |-> 0]
    /\ lastCall = NoCall

\* slot indices of the handles given to the QueryEntitySet: 0 and 1 share a
\* bottom word, 33 lies beyond a capacity of 32
QESIds == {0, 1, 33}

\* highest reuse generation of the handles given to the QueryEntitySet
QESMaxGen == 1

QESHandles == {packEntity(0, g, i) : g \in 0..QESMaxGen, i \in QESIds}

\* capacities a QueryEntitySet is constructed with: slots 0 and 1 fit, slot 33
\* forces a growth
QESInitCaps == {32}

\* slots the world may issue
MaxEntities == 3

\* the world reissues released slots as long as no more than MaxRecycle
\* releases have happened
MaxRecycle == 1

\* highest reuse generation of the handles destroyEntity is called with
MaxGeneration == 0

\* most relation pairs the world holds at a time
MaxEdges == 2

\* the handles destroyEntity is called with: every slot at every generation in
\* range, issued or not
WorldHandles == {packEntity(WORLD_ID, g, i) : g \in 0..MaxGeneration, i \in 0..(MaxEntities - 1)}

NoWorldCall == [op |-> "none", entity |-> Undefined, threw |-> FALSE, released |-> <<>>,
                edges0 |-> {}, pushed |-> {}, stale |-> {}, untidy |-> {},
                alive0 |-> {}]

WorldIdle ==
    /\ world = NewWorld
    /\ cachedQueue = <<>>
    /\ cachedSet = {}
    /\ dLast = NoWorldCall
    /\ slotReleases = <<>>
    /\ retiredAt = <<>>

NoQESCall == [op |-> "none", entity |-> Undefined, size0 |-> Undefined,
              bit0 |-> FALSE, had0 |-> FALSE, paired |-> FALSE]

QESIdle ==
    /\ qes = NewQueryEntitySet(32)
    /\ stored = [i \in QESIds |-> Undefined]
    /\ qLast = NoQESCall

AlgIdle ==
    /\ setA = NewBitSet(32)
    /\ setB = NewBitSet(32)
    /\ visits = <<>>
    /\ algCall = "none"

\* keys of the n-ary operations: 1 and 5 share a bottom word, 1025 lies in the
\* second top word
ManyKeys == {1, 5, 1025}

\* most sets in the list given to bitSetAndMany
MaxSets == 3

NoManyCall == [call |-> "none", visits |-> <<>>, ret |-> FALSE]

ManyIdle ==
    /\ sets = <<>>
    /\ manyOut = NoManyCall

\* keys added to the growing BitSet: 31 fits a capacity of 32, 32 and 63 need
\* one doubling (63 exactly fills it), 200 needs three, 1024 is the first key
\* beyond the default capacity
GrowKeys == {31, 32, 63, 200, 1024}

\* slot indices added to the growing QueryEntitySet
GrowSlots == {31, 63, 200}

GrowHandles == {packEntity(0, g, i) : g \in 0..1, i \in GrowSlots}

\* trait banks of the growing mask table
GrowBanks == {0, 1}

\* slots the mask table is asked to cover: 1 fits the initial length, 2 needs
\* one doubling, 9 needs three
GrowEids == {1, 2, 9}

NoGrowCall == [kind |-> "none", op |-> "none", key |-> -1, init |-> 0, max |-> -1]

GrowIdle ==
    /\ gset = <<>>
    /\ grow = NoGrowCall

\* the words of a query's bank 0: required {0,1}, forbidden {2} and an
\* or-mask on two further bits, each present or empty
Triples0 ==
    [required : {{}, {0, 1}}, forbidden : {{}, {2}}, or : {{}, {3, 4}}]

\* the words of a query's bank 1: empty, one required bit, one forbidden bit
Triples1 ==
    {[required |-> {}, forbidden |-> {}, or |-> {}],
     [required |-> {0}, forbidden |-> {}, or |-> {}],
     [required |-> {}, forbidden |-> {0}, or |-> {}]}

\* the entities a query is matched against: slot 1 lies inside a mask array of
\* MaskInitLen words, slot 5 beyond it
QueryEntities == {packEntity(WORLD_ID, 0, 1), packEntity(WORLD_ID, 1, 5)}

\* the mask words of slot 1
MaskWords0 == {{}, {0, 1}, {0, 1, 2}, {0, 1, 3}, {3}}
MaskWords1 == {{}, {0}}

\* entity mask tables of no, one and two banks
MaskTables ==
    {<<>>} \cup {<<<<{}, m>>>> : m \in MaskWords0}
           \cup {<<<<{}, m0>>, <<{}, m1>>>> : m0 \in MaskWords0, m1 \in MaskWords1}

\* the relation filters of a query and the relation pairs of the world
Filter1 == [relation |-> 1, target |-> packEntity(WORLD_ID, 0, 2)]
Filter2 == [relation |-> 2, target |-> packEntity(WORLD_ID, 0, 3)]
PairOf(filter, entity) == <<filter.relation, entity, filter.target>>
QueryEdges ==
    SUBSET {PairOf(f, e) : f \in {Filter1, Filter2}, e \in {packEntity(WORLD_ID, 0, 1)}}

\* the tracked event the tracking variants are asked about
QueryEvent == [type |-> "add", generationId |-> 0, bitflag |-> 0]
TrackedEvent(entity) ==
    [type |-> QueryEvent.type, generationId |-> QueryEvent.generationId,
     bitflag |-> QueryEvent.bitflag, eid |-> getEntityId(entity)]

\* queries by the banks they touch: none (no trait), bank 0, bank 1, both
PlainQueries ==
    LET mk(n, gens, masks) ==
            [traitCount |-> n, generations |-> gens, staticBitmasks |-> masks,
             hasFilters |-> FALSE, relationFilters |-> <<>>,
             hasTracking |-> FALSE, tracking |-> {}]
    IN {mk(0, <<>>, <<>>)}
       \cup {mk(1, <<0>>, <<t>>) : t \in Triples0}
       \cup {mk(1, <<1>>, <<t>>) : t \in Triples1}
       \cup {mk(2, <<0, 1>>, <<t0, t1>>) : t0 \in Triples0, t1 \in Triples1}

\* a query with its relationFilters field absent, empty, or holding one or two filters
WithFilters(query) ==
    {query} \cup {[query EXCEPT !.hasFilters = TRUE, !.relationFilters = fs] :
                     fs \in {<<>>, <<Filter1>>, <<Filter1, Filter2>>}}

\* a query with its tracking state absent, empty, or holding the event of slot 1
WithTracking(query) ==
    {query} \cup {[query EXCEPT !.hasTracking = TRUE, !.tracking = t] :
                     t \in {{}, {TrackedEvent(packEntity(WORLD_ID, 0, 1))}}}

NoQueryCall == [call |-> "none"]

QueryIdle ==
    /\ qworld = [entityMasks |-> <<>>, edges |-> {}]
    /\ qres = NoQueryCall

\* capacities a structure is constructed with, 0 included, and the indices
\* the growing call is given
LoopCapacities == {0, 1, 3, 32}
LoopIndices == {0, 1, 31, 32, 100}
LoopKinds == {"BitSet", "QueryEntitySet", "masks"}

\* odd tells whether the loop body has run an odd number of times
NoLoop == [kind |-> "none", pc |-> "idle", capacity |-> 0, index |-> 0, newCapacity |-> 0,
           odd |-> FALSE]

LoopIdle == loop = NoLoop

RestIdle ==
    /\ ManyIdle
    /\ GrowIdle
    /\ QueryIdle
    /\ LoopIdle

InitBitSet ==
    /\ \E c \in InitCaps : bs = NewBitSet(c)
    /\ lastOp = [k \in Keys |-> "none"]
    /\ parity = [k \in Keys |-> 0]
    /\ lastCall = NoCall
    /\ AlgIdle
    /\ QESIdle
    /\ WorldIdle
    /\ RestIdle

\* bs.add(key)
Add(key) ==
    \E r \in {BitSetAdd(bs, key)} :
       /\ bs' = r.set
       /\ lastOp' = [lastOp EXCEPT ![key] = "add"]
       /\ parity' = [parity EXCEPT ![key] = IF r.ret THEN 1 - @ ELSE @]
       /\ lastCall' = [op |-> "add", key |-> key, ret |-> r.ret,
                       was |-> lastOp[key] = "add", capBefore |-> bs.capacity,
                       countBefore |-> bs.count]
       /\ UNCHANGED <<algVars, qesVars, worldVars, restVars>>

\* bs.remove(key)
Remove(key) ==
    \E r \in {BitSetRemove(bs, key)} :
       /\ bs' = r.set
       /\ lastOp' = [lastOp EXCEPT ![key] = "remove"]
       /\ parity' = [parity EXCEPT ![key] = IF r.ret THEN 1 - @ ELSE @]
       /\ lastCall' = [op |-> "remove", key |-> key, ret |-> r.ret,
                       was |-> lastOp[key] = "add", capBefore |-> bs.capacity,
                       countBefore |-> bs.count]
       /\ UNCHANGED <<algVars, qesVars, worldVars, restVars>>

\* bs.clear()
Clear ==
    /\ bs' = BitSetClear(bs)
    /\ lastOp' = [k \in Keys |-> "clear"]
    /\ parity' = [k \in Keys |-> 0]
    /\ lastCall' = [op |-> "clear", key |-> 0, ret |-> FALSE, was |-> FALSE,
                    capBefore |-> bs.capacity, countBefore |-> bs.count]
    /\ UNCHANGED <<algVars, qesVars, worldVars, restVars>>

NextBitSet ==
    \/ \E k \in Keys : Add(k)
    \/ \E k \in Keys : Remove(k)
    \/ Clear

SpecBitSet == InitBitSet /\ [][NextBitSet]_vars

-----------------------------------------------------------------------------
(* SpecAlg: two BitSets of independent capacity and the set operations *)

InitAlg ==
    /\ \E c \in InitCaps : setA = NewBitSet(c)
    /\ \E c \in InitCaps : setB = NewBitSet(c)
    /\ visits = <<>>
    /\ algCall = "none"
    /\ BitSetIdle
    /\ QESIdle
    /\ WorldIdle
    /\ RestIdle

\* a.add(key)
AlgAddA(key) ==
    /\ setA' = BitSetAdd(setA, key).set
    /\ visits' = <<>>
    /\ algCall' = "none"
    /\ UNCHANGED <<setB, bsVars, qesVars, worldVars, restVars>>

\* b.add(key)
AlgAddB(key) ==
    /\ setB' = BitSetAdd(setB, key).set
    /\ visits' = <<>>
    /\ algCall' = "none"
    /\ UNCHANGED <<setA, bsVars, qesVars, worldVars, restVars>>

\* a.remove(key)
AlgRemoveA(key) ==
    /\ setA' = BitSetRemove(setA, key).set
    /\ visits' = <<>>
    /\ algCall' = "none"
    /\ UNCHANGED <<setB, bsVars, qesVars, worldVars, restVars>>

\* b.remove(key)
AlgRemoveB(key) ==
    /\ setB' = BitSetRemove(setB, key).set
    /\ visits' = <<>>
    /\ algCall' = "none"
    /\ UNCHANGED <<setA, bsVars, qesVars, worldVars, restVars>>

\* bitSetAnd(a, b, key => visits.push(key))
RunAnd ==
    /\ visits' = bitSetAnd(setA, setB)
    /\ algCall' = "and"
    /\ UNCHANGED <<setA, setB, bsVars, qesVars, worldVars, restVars>>

\* bitSetAndNot(a, b, key => visits.push(key))
RunAndNot ==
    /\ visits' = bitSetAndNot(setA, setB)
    /\ algCall' = "andNot"
    /\ UNCHANGED <<setA, setB, bsVars, qesVars, worldVars, restVars>>

NextAlg ==
    \/ \E k \in Keys : AlgAddA(k)
    \/ \E k \in Keys : AlgAddB(k)
    \/ \E k \in Keys : AlgRemoveA(k)
    \/ \E k \in Keys : AlgRemoveB(k)
    \/ RunAnd
    \/ RunAndNot

SpecAlg == InitAlg /\ [][NextAlg]_vars

-----------------------------------------------------------------------------
(* SpecMany: a list of BitSets of independent capacity and the n-ary operations *)

manyOthers == <<bsVars, algVars, qesVars, worldVars, growVars, queryVars, loopVars>>

InitMany ==
    /\ \E n \in 0..MaxSets : sets \in [1..n -> {NewBitSet(c) : c \in InitCaps}]
    /\ manyOut = NoManyCall
    /\ BitSetIdle
    /\ AlgIdle
    /\ QESIdle
    /\ WorldIdle
    /\ GrowIdle
    /\ QueryIdle
    /\ LoopIdle

\* sets[i].add(key)
ManyAdd(i, key) ==
    /\ sets' = [sets EXCEPT ![i] = BitSetAdd(sets[i], key).set]
    /\ manyOut' = NoManyCall
    /\ UNCHANGED manyOthers

\* sets[i].remove(key)
ManyRemove(i, key) ==
    /\ sets' = [sets EXCEPT ![i] = BitSetRemove(sets[i], key).set]
    /\ manyOut' = NoManyCall
    /\ UNCHANGED manyOthers

\* bitSetAndMany(sets, key => visits.push(key))
RunAndMany ==
    /\ manyOut' = [call |-> "andMany", visits |-> bitSetAndMany(sets), ret |-> FALSE]
    /\ UNCHANGED <<sets, manyOthers>>

\* bitSetIsSubset(sets[0], sets[1])
RunIsSubset ==
    /\ Len(sets) >= 2
    /\ manyOut' = [call |-> "isSubset", visits |-> <<>>,
                   ret |-> bitSetIsSubset(sets[1], sets[2])]
    /\ UNCHANGED <<sets, manyOthers>>

NextMany ==
    \/ \E i \in 1..Len(sets), k \in ManyKeys : ManyAdd(i, k)
    \/ \E i \in 1..Len(sets), k \in ManyKeys : ManyRemove(i, k)
    \/ RunAndMany
    \/ RunIsSubset

SpecMany == InitMany /\ [][NextMany]_vars

-----------------------------------------------------------------------------
(* SpecGrow: one growable structure, a BitSet, a QueryEntitySet or an entity *)
(* mask table, driven by the calls that may or may not grow it               *)

growOthers == <<bsVars, algVars, qesVars, worldVars, manyVars, queryVars, loopVars>>

\* the mask table before any growth: one array of MaskInitLen words per bank
NewMasks == [b \in 1..Cardinality(GrowBanks) |-> ZeroWords(MaskInitLen)]

InitGrow ==
    /\ \/ \E c \in InitCaps :
             /\ gset = NewBitSet(c)
             /\ grow = [kind |-> "BitSet", op |-> "new", key |-> -1, init |-> c, max |-> -1]
       \/ \E c \in InitCaps :
             /\ gset = NewQueryEntitySet(c)
             /\ grow = [kind |-> "QueryEntitySet", op |-> "new", key |-> -1, init |-> c, max |-> -1]
       \/ /\ gset = NewMasks
          /\ grow = [kind |-> "masks", op |-> "new", key |-> -1, init |-> MaskInitLen,
                     max |-> [b \in GrowBanks |-> -1]]
    /\ BitSetIdle
    /\ AlgIdle
    /\ QESIdle
    /\ WorldIdle
    /\ ManyIdle
    /\ QueryIdle
    /\ LoopIdle

\* bitSet.add(key)
GBitAdd(key) ==
    /\ grow.kind = "BitSet"
    /\ gset' = BitSetAdd(gset, key).set
    /\ grow' = [grow EXCEPT !.op = "add", !.key = key, !.max = Max(@, key)]
    /\ UNCHANGED growOthers

\* bitSet.remove(key)
GBitRemove(key) ==
    /\ grow.kind = "BitSet"
    /\ gset' = BitSetRemove(gset, key).set
    /\ grow' = [grow EXCEPT !.op = "remove", !.key = -1]
    /\ UNCHANGED growOthers

\* bitSet.has(key): a read
GBitHas(key) ==
    /\ grow.kind = "BitSet"
    /\ BitSetHas(gset, key) \in BOOLEAN
    /\ gset' = gset
    /\ grow' = [grow EXCEPT !.op = "has", !.key = -1]
    /\ UNCHANGED growOthers

\* bitSet.clear()
GBitClear ==
    /\ grow.kind = "BitSet"
    /\ gset' = BitSetClear(gset)
    /\ grow' = [grow EXCEPT !.op = "clear", !.key = -1]
    /\ UNCHANGED growOthers

\* queryEntitySet.add(entity)
GQAdd(entity) ==
    /\ grow.kind = "QueryEntitySet"
    /\ gset' = QESAdd(gset, entity)
    /\ grow' = [grow EXCEPT !.op = "add", !.key = getEntityId(entity), !.max = Max(@, getEntityId(entity))]
    /\ UNCHANGED growOthers

\* queryEntitySet.remove(entity)
GQRemove(entity) ==
    /\ grow.kind = "QueryEntitySet"
    /\ gset' = QESRemove(gset, entity)
    /\ grow' = [grow EXCEPT !.op = "remove", !.key = -1]
    /\ UNCHANGED growOthers

\* queryEntitySet.has(entity): a read
GQHas(entity) ==
    /\ grow.kind = "QueryEntitySet"
    /\ QESHas(gset, entity) \in BOOLEAN
    /\ gset' = gset
    /\ grow' = [grow EXCEPT !.op = "has", !.key = -1]
    /\ UNCHANGED growOthers

\* queryEntitySet.clear()
GQClear ==
    /\ grow.kind = "QueryEntitySet"
    /\ gset' = QESClear(gset)
    /\ grow' = [grow EXCEPT !.op = "clear", !.key = -1]
    /\ UNCHANGED growOthers

\* ensureEntityMaskSize(masks, generationId, eid)
GEnsure(generationId, eid) ==
    /\ grow.kind = "masks"
    /\ gset' = ensureEntityMaskSize(gset, generationId, eid)
    /\ grow' = [grow EXCEPT !.op = "ensure", !.key = eid, !.max[generationId] = Max(@, eid)]
    /\ UNCHANGED growOthers

\* the trait-mutation collaborator sets a trait bit of a slot the bank covers:
\* masks[generationId][eid] |= 1 << bit
GSetBit(generationId, eid, bit) ==
    /\ grow.kind = "masks"
    /\ eid < Len(gset[generationId + 1])
    /\ gset' = [gset EXCEPT ![generationId + 1] = WriteWord(@, eid, ReadWord(@, eid) \cup {bit})]
    /\ grow' = [grow EXCEPT !.op = "setBit", !.key = -1]
    /\ UNCHANGED growOthers

NextGrow ==
    \/ \E k \in GrowKeys : GBitAdd(k)
    \/ \E k \in GrowKeys : GBitRemove(k)
    \/ \E k \in GrowKeys : GBitHas(k)
    \/ GBitClear
    \/ \E e \in GrowHandles : GQAdd(e)
    \/ \E e \in GrowHandles : GQRemove(e)
    \/ \E e \in GrowHandles : GQHas(e)
    \/ GQClear
    \/ \E b \in GrowBanks, eid \in GrowEids : GEnsure(b, eid)
    \/ \E b \in GrowBanks, eid \in GrowEids : GSetBit(b, eid, 0)

SpecGrow == InitGrow /\ [][NextGrow]_vars

-----------------------------------------------------------------------------
(* SpecQuery: the query matcher applied to queries and entities of a world *)

queryOthers == <<bsVars, algVars, qesVars, worldVars, manyVars, growVars, loopVars>>

InitQuery ==
    /\ qworld \in [entityMasks : MaskTables, edges : QueryEdges]
    /\ qres = NoQueryCall
    /\ BitSetIdle
    /\ AlgIdle
    /\ QESIdle
    /\ WorldIdle
    /\ ManyIdle
    /\ GrowIdle
    /\ LoopIdle

\* checkQuery(world, query, entity)
CheckQuery(query, entity) ==
    /\ qres' = [call |-> "checkQuery", query |-> query, entity |-> entity,
                out |-> checkQuery(qworld.entityMasks, query, entity), lookups |-> <<>>]
    /\ UNCHANGED <<qworld, queryOthers>>

\* checkQueryWithRelations(world, query, entity)
CheckQueryWithRelations(query, entity) ==
    \E r \in {checkQueryWithRelations(qworld.entityMasks, qworld.edges, query, entity)} :
       /\ qres' = [call |-> "checkQueryWithRelations", query |-> query, entity |-> entity,
                   out |-> r.out, lookups |-> r.lookups]
       /\ UNCHANGED <<qworld, queryOthers>>

\* checkQueryTracking(world, query, entity, eventType, eventGenerationId, eventBitflag)
CheckQueryTracking(query, entity) ==
    /\ qres' = [call |-> "checkQueryTracking", query |-> query, entity |-> entity,
                out |-> checkQueryTracking(qworld.entityMasks, query, entity, QueryEvent.type,
                                           QueryEvent.generationId, QueryEvent.bitflag),
                lookups |-> <<>>]
    /\ UNCHANGED <<qworld, queryOthers>>

\* checkQueryTrackingWithRelations(world, query, entity, eventType, eventGenerationId,
\* eventBitflag)
CheckQueryTrackingWithRelations(query, entity) ==
    \E r \in {checkQueryTrackingWithRelations(qworld.entityMasks, qworld.edges, query, entity,
                    QueryEvent.type, QueryEvent.generationId, QueryEvent.bitflag)} :
       /\ qres' = [call |-> "checkQueryTrackingWithRelations", query |-> query,
                   entity |-> entity, out |-> r.out, lookups |-> r.lookups]
       /\ UNCHANGED <<qworld, queryOthers>>

\* the matcher reads the world and changes nothing, so every call is made on
\* the world as constructed: qres holds the one call of the behaviour
NextQuery ==
    \/ /\ qres = NoQueryCall
       /\ \E q \in PlainQueries, e \in QueryEntities : CheckQuery(q, e)
    \/ /\ qres = NoQueryCall
       /\ \E p \in PlainQueries : \E q \in WithFilters(p), e \in QueryEntities :
             CheckQueryWithRelations(q, e)
    \/ /\ qres = NoQueryCall
       /\ \E p \in PlainQueries : \E q \in WithTracking(p), e \in QueryEntities :
             CheckQueryTracking(q, e)
    \/ /\ qres = NoQueryCall
       /\ \E p \in PlainQueries : \E t \in WithTracking(p) : \E q \in WithFilters(t),
             e \in QueryEntities : CheckQueryTrackingWithRelations(q, e)

SpecQuery == InitQuery /\ [][NextQuery]_vars

-----------------------------------------------------------------------------
(* SpecLoop: the doubling loop of a growing call, one iteration per step *)

loopOthers == <<bsVars, algVars, qesVars, worldVars, manyVars, growVars, queryVars>>

InitLoop ==
    /\ LoopIdle
    /\ BitSetIdle
    /\ AlgIdle
    /\ QESIdle
    /\ WorldIdle
    /\ ManyIdle
    /\ GrowIdle
    /\ QueryIdle

\* new BitSet(capacity).add(index), new QueryEntitySet(capacity).add(index) or
\* ensureEntityMaskSize(masks, bank, index) on a bank array of length
\* capacity, up to the loop: the call returns without growing when the index
\* is covered, else newCapacity starts at the current capacity
LoopCall(kind, capacity, index) ==
    /\ loop.pc = "idle"
    /\ loop' = [kind |-> kind, capacity |-> capacity, index |-> index,
                newCapacity |-> capacity, odd |-> FALSE,
                pc |-> IF index >= capacity THEN "while" ELSE "returned"]
    /\ UNCHANGED loopOthers

\* the loop test: newCapacity < minCapacity with minCapacity = index + 1 in
\* grow, newLen <= eid in ensureEntityMaskSize
LoopCondition ==
    IF loop.kind = "masks" THEN loop.newCapacity <= loop.index
    ELSE loop.newCapacity < loop.index + 1

\* one iteration: newCapacity *= 2
LoopBody ==
    /\ loop.pc = "while"
    /\ LoopCondition
    /\ loop' = [loop EXCEPT !.newCapacity = @ * 2, !.odd = ~@]
    /\ UNCHANGED loopOthers

\* the loop test fails: the arrays are reallocated and the call returns
LoopExit ==
    /\ loop.pc = "while"
    /\ ~LoopCondition
    /\ loop' = [loop EXCEPT !.pc = "returned"]
    /\ UNCHANGED loopOthers

NextLoop ==
    \/ \E kind \in LoopKinds, capacity \in LoopCapacities, index \in LoopIndices :
          LoopCall(kind, capacity, index)
    \/ LoopBody
    \/ LoopExit

SpecLoop == InitLoop /\ [][NextLoop]_vars

\* a call that has started keeps running: no step of it is postponed forever
SpecLoopFair == SpecLoop /\ WF_vars(NextLoop)

-----------------------------------------------------------------------------
(* SpecQES: one QueryEntitySet driven by add / remove / clear *)

InitQES ==
    /\ \E c \in QESInitCaps : qes = NewQueryEntitySet(c)
    /\ stored = [i \in QESIds |-> Undefined]
    /\ qLast = NoQESCall
    /\ BitSetIdle
    /\ AlgIdle
    /\ WorldIdle
    /\ RestIdle

\* the membership bit of the slot of entity
QESBit(q, entity) ==
    ReadWord(q.bottom, getEntityId(entity) \div 32) \cap {getEntityId(entity) % 32} # {}

\* set.add(entity); size0, bit0 and had0 keep the size, the slot's membership
\* bit and has(entity) from before the call
QAdd(entity) ==
    /\ qes' = QESAdd(qes, entity)
    /\ stored' = [stored EXCEPT ![getEntityId(entity)] = entity]
    /\ qLast' = [op |-> "add", entity |-> entity, size0 |-> QESSize(qes),
                 bit0 |-> QESBit(qes, entity), had0 |-> QESHas(qes, entity),
                 paired |-> FALSE]
    /\ UNCHANGED <<bsVars, algVars, worldVars, restVars>>

\* set.remove(entity); when the call directly follows add(entity), paired is
\* set and size0, bit0 and had0 are carried over from that add
QRemove(entity) ==
    /\ qes' = QESRemove(qes, entity)
    /\ stored' = [stored EXCEPT ![getEntityId(entity)] = IF @ = entity THEN Undefined ELSE @]
    /\ qLast' = IF qLast.op = "add" /\ qLast.entity = entity
                THEN [qLast EXCEPT !.op = "remove", !.paired = TRUE]
                ELSE [op |-> "remove", entity |-> entity, size0 |-> Undefined,
                      bit0 |-> FALSE, had0 |-> FALSE, paired |-> FALSE]
    /\ UNCHANGED <<bsVars, algVars, worldVars, restVars>>

\* set.clear()
QClear ==
    /\ qes' = QESClear(qes)
    /\ stored' = [i \in QESIds |-> Undefined]
    /\ qLast' = [NoQESCall EXCEPT !.op = "clear"]
    /\ UNCHANGED <<bsVars, algVars, worldVars, restVars>>

NextQES ==
    \/ \E e \in QESHandles : QAdd(e)
    \/ \E e \in QESHandles : QRemove(e)
    \/ QClear

SpecQES == InitQES /\ [][NextQES]_vars

-----------------------------------------------------------------------------
(* SpecWorld: one world driven by spawn / relate / destroy *)

InitWorld ==
    /\ WorldIdle
    /\ RestIdle
    /\ BitSetIdle
    /\ AlgIdle
    /\ QESIdle

\* how many releases of slot id have happened
ReleasesOf(id) == IF id \in DOMAIN slotReleases THEN slotReleases[id] ELSE 0

\* the bookkeeping of a sequence of releaseEntity calls: count them per slot
\* and stamp each released handle with the count of its slot
RECURSIVE CountReleases(_, _)
CountReleases(counts, released) ==
    IF released = <<>> THEN counts
    ELSE LET id == getEntityId(Head(released))
         IN CountReleases(MapSet(counts, id,
                                 (IF id \in DOMAIN counts THEN counts[id] ELSE 0) + 1),
                          Tail(released))

RECURSIVE StampReleases(_, _, _)
StampReleases(stamps, counts, released) ==
    IF released = <<>> THEN stamps
    ELSE LET id == getEntityId(Head(released))
             n == (IF id \in DOMAIN counts THEN counts[id] ELSE 0) + 1
         IN StampReleases(MapSet(stamps, Head(released), n), MapSet(counts, id, n),
                          Tail(released))

RECURSIVE SumOver(_, _)
SumOver(f, D) == IF D = {} THEN 0 ELSE LET x == CHOOSE y \in D : TRUE
                                      IN f[x] + SumOver(f, D \ {x})

\* how many releases have happened in all
TotalReleases == SumOver(slotReleases, DOMAIN slotReleases)

\* the slot the next allocation draws
NextSlot(index) ==
    IF index.free # <<>> THEN index.free[Len(index.free)] ELSE index.maxId

\* world.spawn(...traits) = createEntity(world, ...traits)
Spawn(traits) ==
    \E r \in {createEntity(world, traits)} :
       /\ world' = r.world
       /\ dLast' = [NoWorldCall EXCEPT !.op = "create"]
       /\ UNCHANGED <<cachedQueue, cachedSet, slotReleases, retiredAt>>
       /\ UNCHANGED <<bsVars, algVars, qesVars, restVars>>

\* source.add(relation(target)) = addTrait(world, source, relation(target))
Relate(ri, source, target) ==
    /\ WorldHas(world, source)
    /\ WorldHas(world, target)
    /\ world' = [addTrait(world, source, RelationTrait(ri)) EXCEPT
                    !.relationEdges = @ \cup {<<ri, source, target>>}]
    /\ dLast' = [NoWorldCall EXCEPT !.op = "relate"]
    /\ UNCHANGED <<cachedQueue, cachedSet, slotReleases, retiredAt>>
    /\ UNCHANGED <<bsVars, algVars, qesVars, restVars>>

\* entity.destroy() = destroyEntity(world, entity); ascending is the order in
\* which the relation lookups list their results
Destroy(entity, ascending) ==
    \E d \in {destroyEntity(world, cachedQueue, cachedSet, entity, ascending)} :
       /\ world' = d.world
       /\ cachedQueue' = d.queue
       /\ cachedSet' = d.processed
       /\ dLast' = [op |-> "destroy", entity |-> entity, threw |-> d.threw,
                    released |-> d.released, edges0 |-> world.relationEdges,
                    pushed |-> d.pushed, stale |-> d.stale, untidy |-> d.untidy,
                    alive0 |-> {h \in DOMAIN world.entityTraits : WorldHas(world, h)}]
       /\ slotReleases' = CountReleases(slotReleases, d.released)
       /\ retiredAt' = StampReleases(retiredAt, slotReleases, d.released)
       /\ UNCHANGED <<bsVars, algVars, qesVars, restVars>>

NextWorld ==
    \/ \E traits \in {<<0>>} :
          /\ NextSlot(world.entityIndex) < MaxEntities
          /\ world.entityIndex.free # <<>> => TotalReleases <= MaxRecycle
          /\ Spawn(traits)
    \/ \E ri \in 1..Len(Relations), source, target \in WorldHandles :
          /\ Cardinality(world.relationEdges) < MaxEdges
          /\ Relate(ri, source, target)
    \/ \E entity \in WorldHandles, ascending \in BOOLEAN : Destroy(entity, ascending)

SpecWorld == InitWorld /\ [][NextWorld]_vars

-----------------------------------------------------------------------------
(* SpecIndex: spawn and destroy on a few slots, through every reuse generation *)

\* slots the world may issue
IndexSlots == 2

\* releases after which the world stops: one more than the number of reuse
\* generations a handle can carry
IndexMaxReleases == GENERATION_RANGE + 1

\* the handles destroyEntity is called with: the live handles and the first
\* handle of every slot
IndexHandles ==
    {h \in DOMAIN world.entityTraits : WorldHas(world, h)}
    \cup {packEntity(WORLD_ID, 0, i) : i \in 0..(IndexSlots - 1)}

NextIndex ==
    \/ /\ NextSlot(world.entityIndex) < IndexSlots
       /\ Spawn(<<0>>)
    \/ \E entity \in IndexHandles :
          /\ TotalReleases < IndexMaxReleases
          /\ Destroy(entity, TRUE)

SpecIndex == InitWorld /\ [][NextIndex]_vars

-----------------------------------------------------------------------------
(* SpecReentrant: a world whose trait-removal subscriber destroys an entity *)

\* world.onRemove(trait, callback): from now on, when the plain trait leaves
\* entity, the callback destroys victim if the world still has it
Subscribe(entity, victim) ==
    /\ WorldHas(world, entity)
    /\ WorldHas(world, victim)
    /\ entity # victim
    /\ world' = [world EXCEPT !.onRemove = @ \cup {<<entity, victim>>}]
    /\ dLast' = [NoWorldCall EXCEPT !.op = "subscribe"]
    /\ UNCHANGED <<cachedQueue, cachedSet, slotReleases, retiredAt>>
    /\ UNCHANGED <<bsVars, algVars, qesVars, restVars>>

NextReentrant ==
    \/ \E traits \in {<<0>>} :
          /\ NextSlot(world.entityIndex) < MaxEntities
          /\ world.entityIndex.free # <<>> => TotalReleases <= MaxRecycle
          /\ Spawn(traits)
    \/ \E ri \in 1..Len(Relations), source, target \in WorldHandles :
          /\ Cardinality(world.relationEdges) < MaxEdges
          /\ Relate(ri, source, target)
    \/ \E entity, victim \in WorldHandles :
          /\ world.onRemove = {}
          /\ Subscribe(entity, victim)
    \/ \E entity \in WorldHandles, ascending \in BOOLEAN : Destroy(entity, ascending)

SpecReentrant == InitWorld /\ [][NextReentrant]_vars

-----------------------------------------------------------------------------
(* Properties of entity identity and of destroyEntity *)

Pairs(edges, policy) == {p \in edges : Relations[p[1]].autoDestroy = policy}

\* the entities with a chain of `source`-policy pairs to root, root included
RECURSIVE SourceChain(_, _)
SourceChain(edges, reached) ==
    LET next == reached \cup {p[2] : p \in {q \in Pairs(edges, "source") : q[3] \in reached}}
    IN IF next = reached THEN reached ELSE SourceChain(edges, next)

\* the entities a destroy of the entities in `reached` takes along: sources
\* of `source`-policy pairs and targets of `target`-policy pairs, transitively
RECURSIVE CascadeSet(_, _)
CascadeSet(edges, reached) ==
    LET next == reached
                \cup {p[2] : p \in {q \in Pairs(edges, "source") : q[3] \in reached}}
                \cup {p[3] : p \in {q \in Pairs(edges, "target") : q[2] \in reached}}
    IN IF next = reached THEN reached ELSE CascadeSet(edges, next)

\* C1: destroyEntity(A) destroys every entity with a chain of `source`-policy
\* pairs to A; destroyEntity(B) of a source B of such a pair B -> A leaves A
\* alive, unless a cascade from B reaches A by other pairs
C1_SourceCascade ==
    (dLast.op = "destroy" /\ ~dLast.threw) =>
        /\ \A x \in SourceChain(dLast.edges0, {dLast.entity}) : ~WorldHas(world, x)
        /\ \A p \in Pairs(dLast.edges0, "source") :
              (p[2] = dLast.entity /\ p[3] \notin CascadeSet(dLast.edges0, {dLast.entity}))
                  => WorldHas(world, p[3])

\* a destroy has taken a chain C -> B -> A of `source` pairs from its end A
C1_Witness ==
    /\ dLast.op = "destroy"
    /\ ~dLast.threw
    /\ \E b, c \in WorldHandles :
          /\ b # dLast.entity /\ c # dLast.entity /\ b # c
          /\ dLast.edges0 = {<<1, b, dLast.entity>>, <<1, c, b>>}
          /\ ~WorldHas(world, b) /\ ~WorldHas(world, c)

\* C2: destroyEntity throws exactly for a handle that world.has rejects, and
\* then changes nothing: entity index, traits, masks, all-entities query,
\* relation pairs, and the shared queue and processed set are as before
C2_MissingThrowsUnchanged ==
    [][dLast'.op = "destroy" =>
          /\ dLast'.threw <=> ~WorldHas(world, dLast'.entity)
          /\ dLast'.threw => UNCHANGED <<world, cachedQueue, cachedSet>>]_vars

\* a destroy of a stale handle (its slot is live under a newer generation) has
\* thrown while the processed set still held the entities of an earlier cascade
C2_Witness ==
    /\ dLast.op = "destroy"
    /\ dLast.threw
    /\ getEntityId(dLast.entity) \in world.entityIndex.alive
    /\ cachedSet # {}
    /\ world.relationEdges # {}

Range(seq) == {seq[i] : i \in DOMAIN seq}

\* C23: destroyEntity returns on every relation graph, cycles and
\* self-relations included, with the queue drained; within the call every
\* entity is passed to releaseEntity at most once, and only while the world
\* has it
C23_TerminatesReleasingOnce ==
    (dLast.op = "destroy" /\ ~dLast.threw) =>
        /\ cachedQueue = <<>>
        /\ Cardinality(Range(dLast.released)) = Len(dLast.released)
        /\ Range(dLast.released) \subseteq dLast.alive0
        /\ dLast.stale = {}

\* a destroy has run on a graph where one entity is both a `source`-policy
\* source and a `target`-policy target of the root, so it was queued twice
\* and released once
C23_Witness ==
    /\ dLast.op = "destroy"
    /\ ~dLast.threw
    /\ \E b \in WorldHandles :
          /\ b # dLast.entity
          /\ dLast.edges0 = {<<1, b, dLast.entity>>, <<2, dLast.entity, b>>}
          /\ dLast.released = <<dLast.entity, b>>

\* C24: destroyEntity(root) destroys exactly the entities reached from root
\* backwards along pairs of `source`-policy relations and forwards along pairs
\* of `target`-policy relations; every other entity that was alive stays alive
C24_DestroysExactlyCascade ==
    (dLast.op = "destroy" /\ ~dLast.threw) =>
        LET cascade == CascadeSet(dLast.edges0, {dLast.entity})
        IN /\ Range(dLast.released) = cascade
           /\ \A h \in cascade : ~WorldHas(world, h)
           /\ \A h \in dLast.alive0 \ cascade : WorldHas(world, h)

\* a destroy of a has taken its `target`-policy target c along and left its
\* `none`-policy source b alive
C24_Witness ==
    /\ dLast.op = "destroy"
    /\ ~dLast.threw
    /\ \E b, c \in WorldHandles :
          /\ b # c /\ b # dLast.entity /\ c # dLast.entity
          /\ dLast.edges0 = {<<3, b, dLast.entity>>, <<2, dLast.entity, c>>}
          /\ WorldHas(world, b)
          /\ ~WorldHas(world, c)

\* C25: when destroyEntity returns, every entity it destroyed had lost all its
\* traits before its slot was released, is rejected by world.has, has no entry
\* in the entity-traits map, is not in the all-entities query, and has the
\* mask word 0 at its slot in every trait bank
C25_DestroyedLeavesNoState ==
    (dLast.op = "destroy" /\ ~dLast.threw) =>
        /\ dLast.untidy = {}
        /\ \A e \in Range(dLast.released) :
              /\ ~WorldHas(world, e)
              /\ ~HasTraitEntry(world, e)
              /\ ~QESHas(world.allQuery, e)
              /\ \A i \in 1..Len(world.entityMasks) :
                    ReadWord(world.entityMasks[i], getEntityId(e)) = {}

\* a destroy has taken two entities that held a plain and a relation trait,
\* and a third entity is still in the all-entities query with its mask bits
C25_Witness ==
    /\ dLast.op = "destroy"
    /\ ~dLast.threw
    /\ Len(dLast.released) = 2
    /\ dLast.edges0 # {}
    /\ \E h \in dLast.alive0 :
          /\ WorldHas(world, h)
          /\ QESHas(world.allQuery, h)
          /\ ReadWord(world.entityMasks[1], getEntityId(h)) # {}

\* C26: when destroyEntity returns, no surviving entity holds a pair, of any
\* relation and policy, whose target the call destroyed
C26_NoPairToDestroyed ==
    (dLast.op = "destroy" /\ ~dLast.threw) =>
        \A p \in world.relationEdges :
            WorldHas(world, p[2]) => p[3] \notin Range(dLast.released)

\* a destroy of a has left alive a source b that pointed at a by a relation
\* of policy `none` and one of policy `target`
C26_Witness ==
    /\ dLast.op = "destroy"
    /\ ~dLast.threw
    /\ \E b \in WorldHandles :
          /\ b # dLast.entity
          /\ dLast.edges0 = {<<3, b, dLast.entity>>, <<2, b, dLast.entity>>}
          /\ WorldHas(world, b)
          /\ world.relationEdges = {}

\* the pairs of the relations defined with the given autoDestroy option
DefinedPairs(edges, option) == {p \in edges : RelationDefinitions[p[1]] = option}

C19_CascadeDestroysAllQueued ==
    (dLast.op = "destroy" /\ ~dLast.threw) =>
        \A e \in dLast.pushed : ~WorldHas(world, e)

-----------------------------------------------------------------------------
(* Properties of the QueryEntitySet *)

\* C4: has(h) is true iff h is the exact handle currently stored for its slot
\* (added and not since removed, cleared or overwritten); a handle with the
\* slot of a member but another generation is not a member
C4_HasIsExactStored ==
    \A h \in QESHandles : QESHas(qes, h) <=> (stored[getEntityId(h)] = h)

\* a handle of generation 1 has just replaced the generation-0 handle of its slot
C4_Witness ==
    /\ qLast.op = "add"
    /\ qLast.bit0
    /\ ~qLast.had0
    /\ getEntityGeneration(qLast.entity) = 1
    /\ QESHas(qes, qLast.entity)
    /\ ~QESHas(qes, packEntity(0, 0, getEntityId(qLast.entity)))

\* C5 as stated: after add(e) directly followed by remove(e), has(e) is false
\* and size is the size before the add, for every handle e
C5_AddRemoveRestoresSize ==
    (qLast.op = "remove" /\ qLast.paired) =>
        /\ ~QESHas(qes, qLast.entity)
        /\ QESSize(qes) = qLast.size0

\* C5 amended: after add(e) directly followed by remove(e), has(e) is false;
\* size is the size before the add when the slot of e was free before the add,
\* and one less when the slot was occupied (by e or by a handle of another
\* generation)
C5_AddRemoveSize ==
    (qLast.op = "remove" /\ qLast.paired) =>
        /\ ~QESHas(qes, qLast.entity)
        /\ QESSize(qes) = IF qLast.bit0 THEN qLast.size0 - 1 ELSE qLast.size0

\* add(e) then remove(e) ran on a set of two members that held a handle of
\* another generation in the slot of e
C5_Witness ==
    /\ qLast.op = "remove"
    /\ qLast.paired
    /\ qLast.bit0
    /\ ~qLast.had0
    /\ qLast.size0 = 2

\* C6: add(h) on a slot occupied by a handle g of another generation puts h at
\* g's dense index: size, membership bit and every other dense entry are
\* unchanged, has(h) holds and has(g) does not; add(h) with h stored changes
\* nothing
C6_AddOverwritesInPlace ==
    [][qLast'.op = "add" =>
        LET h == qLast'.entity
            idx == SparseAt(qes, getEntityId(h))
            g == DenseAt(qes, idx)
        IN /\ (QESBit(qes, h) /\ g # h) =>
                /\ QESSize(qes') = QESSize(qes)
                /\ QESBit(qes', h)
                /\ \A i \in 0..(QESSize(qes) - 1) :
                      DenseAt(qes', i) = IF i = idx THEN h ELSE DenseAt(qes, i)
                /\ QESHas(qes', h)
                /\ ~QESHas(qes', g)
           /\ QESHas(qes, h) => qes' = qes]_vars

\* an add has overwritten a stale handle in a set of three members
C6_Witness ==
    /\ qLast.op = "add"
    /\ qLast.bit0
    /\ ~qLast.had0
    /\ QESSize(qes) = 3
    /\ qLast.size0 = 3

\* the dense indices below size whose handle has slot s
DenseIndicesOf(q, s) == {i \in 0..(q.cursor - 1) : getEntityId(DenseAt(q, i)) = s}

\* the membership bit of slot s
SlotBitSet(q, s) == ReadWord(q.bottom, s \div 32) \cap {s % 32} # {}

\* C28: the membership bit of slot s is set iff exactly one dense index below
\* size holds a handle of slot s, and then sparse[s] is that index; size is
\* the number of set bits and no two dense entries below size share a slot
C28_BitsMatchDense ==
    /\ \A s \in 0..(qes.capacity - 1) :
          /\ SlotBitSet(qes, s) <=> Cardinality(DenseIndicesOf(qes, s)) = 1
          /\ SlotBitSet(qes, s) => DenseIndicesOf(qes, s) = {SparseAt(qes, s)}
          /\ Cardinality(DenseIndicesOf(qes, s)) <= 1
    /\ QESSize(qes) = Cardinality({s \in 0..(qes.capacity - 1) : SlotBitSet(qes, s)})
    /\ \A i \in 0..(qes.cursor - 1) : getEntityId(DenseAt(qes, i)) < qes.capacity

\* a remove has moved the handle of slot 33, added last, to dense index 0 of
\* a grown set that still holds slot 1
C28_Witness ==
    /\ qLast.op = "remove"
    /\ getEntityId(qLast.entity) = 0
    /\ QESSize(qes) = 2
    /\ getEntityId(DenseAt(qes, 0)) = 33
    /\ SparseAt(qes, 33) = 0
    /\ getEntityId(DenseAt(qes, 1)) = 1

\* C29: remove(h) of a stored h removes only h: every other handle is a member
\* after iff it was before, the last dense entry is at h's former index, every
\* other entry below the new size keeps its index, size is one less; remove(h)
\* of a handle that is not stored changes nothing
C29_RemoveOnlyThat ==
    [][qLast'.op = "remove" =>
        LET h == qLast'.entity
            idx == SparseAt(qes, getEntityId(h))
            last == QESSize(qes) - 1
        IN IF QESHas(qes, h)
           THEN /\ ~QESHas(qes', h)
                /\ \A g \in QESHandles \ {h} : QESHas(qes', g) <=> QESHas(qes, g)
                /\ QESSize(qes') = QESSize(qes) - 1
                /\ \A i \in 0..(last - 1) :
                      DenseAt(qes', i) = IF i = idx THEN DenseAt(qes, last)
                                         ELSE DenseAt(qes, i)
           ELSE qes' = qes]_vars

\* a remove has taken a stored handle out of a set of three: the entry that
\* was last is now at dense index 0, its old copy lies beyond the new size
C29_Witness ==
    /\ qLast.op = "remove"
    /\ QESSize(qes) = 2
    /\ ~SlotBitSet(qes, getEntityId(qLast.entity))
    /\ DenseAt(qes, 2) = DenseAt(qes, 0)
    /\ DenseAt(qes, 2) # Undefined
    /\ QESHas(qes, DenseAt(qes, 0))
    /\ QESHas(qes, DenseAt(qes, 1))

\* a remove was called with a handle whose slot holds a handle of another
\* generation
C29_ReachedNotStored ==
    /\ qLast.op = "remove"
    /\ ~QESHas(qes, qLast.entity)
    /\ SlotBitSet(qes, getEntityId(qLast.entity))

\* C30: after clear(), size is 0, dense is empty, has is false for every
\* handle, the capacity is what it was, and an add(h) that follows makes h
\* the only member, with size 1
C30_ClearEmpties ==
    [][qLast'.op = "clear" =>
        /\ QESSize(qes') = 0
        /\ QESDense(qes') = <<>>
        /\ \A h \in QESHandles : ~QESHas(qes', h)
        /\ qes'.capacity = qes.capacity
        /\ \A h \in QESHandles :
              LET after == QESAdd(qes', h)
              IN /\ QESSize(after) = 1
                 /\ QESDense(after) = <<h>>
                 /\ \A g \in QESHandles : QESHas(after, g) <=> g = h]_vars

\* a clear has run on a grown set that held three members, whose handles are
\* still in the array behind the cursor
C30_Witness ==
    /\ qLast.op = "clear"
    /\ qes.capacity > 32
    /\ QESSize(qes) = 0
    /\ \A i \in 0..2 : DenseAt(qes, i) # Undefined

-----------------------------------------------------------------------------
(* Properties of the BitSet *)

\* C7: has(k) is true iff the most recent call on k was an add, which is the
\* parity of the state-changing calls on k; add(k) returns false exactly when
\* k was present and remove(k) returns false exactly when k was absent
C7_HasIsParity ==
    /\ \A k \in Keys : BitSetHas(bs, k) <=> (lastOp[k] = "add")
    /\ \A k \in Keys : BitSetHas(bs, k) <=> (parity[k] = 1)
    /\ lastCall.op = "add" => ((lastCall.ret = FALSE) <=> lastCall.was)
    /\ lastCall.op = "remove" => ((lastCall.ret = FALSE) <=> ~lastCall.was)

\* a remove of an absent key beyond the capacity returned false while
\* another key is present
C7_Witness ==
    /\ lastCall.op = "remove"
    /\ lastCall.key >= lastCall.capBefore
    /\ lastCall.ret = FALSE
    /\ \E k \in Keys : BitSetHas(bs, k)

\* the keys of s for which has is true
BitSetKeys(s) == {k \in 0..(s.capacity - 1) : BitSetHas(s, k)}

\* C8: count equals the number of keys for which has is true
C8_CountIsCardinality == bs.count = Cardinality(BitSetKeys(bs))

\* a successful remove left two keys in a set that has grown
C8_Witness ==
    /\ lastCall.op = "remove"
    /\ lastCall.ret
    /\ bs.capacity > lastCall.capBefore \/ bs.capacity > INITIAL_CAPACITY
    /\ bs.count >= 2

\* C20: top bit i (bit i & 31 of top word i >>> 5) is 1 iff bottom word i is
\* non-zero; a top bit with no bottom word is 0
C20_TopBitIffBottomWord ==
    \A ti \in 0..(Len(bs.top) - 1), b \in 0..31 :
       (b \in ReadWord(bs.top, ti)) <=> (ReadWord(bs.bottom, ti * 32 + b) # {})

\* a remove emptied a bottom word beyond the first while the set, grown
\* since its construction, still holds a key
C20_Witness ==
    /\ lastCall.op = "remove"
    /\ lastCall.ret
    /\ lastCall.key >= 32
    /\ ReadWord(bs.bottom, lastCall.key \div 32) = {}
    /\ bs.count >= 1
    /\ Len(bs.top) >= 2

-----------------------------------------------------------------------------
(* Properties of the set operations *)

StrictlyAscending(seq) == \A i, j \in 1..Len(seq) : i < j => seq[i] < seq[j]

Visited == {visits[i] : i \in 1..Len(visits)}

\* C9: bitSetAnd visits exactly the keys present in both sets, each once, in
\* strictly ascending order
C9_AndVisitsIntersection ==
    algCall = "and" =>
        /\ StrictlyAscending(visits)
        /\ Visited = BitSetKeys(setA) \cap BitSetKeys(setB)

\* an intersection of two keys between sets of different top-array lengths,
\* the larger set holding a key the smaller lacks
C9_Witness ==
    /\ algCall = "and"
    /\ Len(visits) >= 2
    /\ Len(setA.top) # Len(setB.top)
    /\ BitSetKeys(setA) # BitSetKeys(setB)

\* C10: bitSetAndNot visits exactly the keys of a that b lacks, each once, in
\* strictly ascending order, also when b's arrays are shorter than a's
C10_AndNotVisitsDifference ==
    algCall = "andNot" =>
        /\ StrictlyAscending(visits)
        /\ Visited = BitSetKeys(setA) \ BitSetKeys(setB)

\* a key beyond b's bottom array was visited, and a key of a was skipped
\* because b holds it
C10_Witness ==
    /\ algCall = "andNot"
    /\ \E i \in 1..Len(visits) : visits[i] >= 32 * Len(setB.bottom)
    /\ Len(setB.top) < Len(setA.top)
    /\ BitSetKeys(setA) \cap BitSetKeys(setB) # {}

\* the keys visited by the last n-ary operation
ManyVisited == {manyOut.visits[i] : i \in 1..Len(manyOut.visits)}

\* new BitSet() filled with the keys of seq, in order
RECURSIVE Collect(_, _, _)
Collect(acc, seq, i) ==
    IF i > Len(seq) THEN acc ELSE Collect(BitSetAdd(acc, seq[i]).set, seq, i + 1)

\* the visit sequence of pairwise AND reduced over ss[i ..], acc being the
\* intersection of the sets before position i
RECURSIVE ReduceAnd(_, _, _)
ReduceAnd(acc, ss, i) ==
    IF i = Len(ss) THEN bitSetAnd(acc, ss[i])
    ELSE ReduceAnd(Collect(NewBitSet(INITIAL_CAPACITY), bitSetAnd(acc, ss[i]), 1), ss, i + 1)

\* C11: bitSetAndMany visits exactly the keys present in every set, in strictly
\* ascending order; for two or more sets its visit sequence is the one of the
\* pairwise AND reduction, for one set it is that set's keys, for none it is empty
C11_AndManyVisitsIntersection ==
    manyOut.call = "andMany" =>
        /\ StrictlyAscending(manyOut.visits)
        /\ Len(sets) = 0 => manyOut.visits = <<>>
        /\ Len(sets) >= 1 =>
              ManyVisited = {k \in BitSetKeys(sets[1]) :
                                \A i \in 1..Len(sets) : BitSetHas(sets[i], k)}
        /\ Len(sets) >= 2 => manyOut.visits = ReduceAnd(sets[1], sets, 2)

\* three sets of three different shapes share two keys, and the largest
\* holds a key the others lack
C11_Witness ==
    /\ manyOut.call = "andMany"
    /\ Len(sets) = 3
    /\ Len(manyOut.visits) = 2
    /\ Cardinality({Len(sets[i].bottom) : i \in 1..3}) = 3
    /\ \E k \in ManyKeys, i \in 1..3 : BitSetHas(sets[i], k) /\ k \notin ManyVisited

-----------------------------------------------------------------------------
(* Properties of growth *)

\* how many doublings the growth loops are followed through
Doublings == 0..12

\* new is the smallest old * 2^n that is >= need
IsSmallestDoubling(old, new, need) ==
    \E n \in Doublings :
       /\ new = old * Pow2(n)
       /\ new >= need
       /\ n > 0 => old * Pow2(n - 1) < need

\* the membership bit of slot eid of a QueryEntitySet
SlotBit(q, eid) == eid < q.capacity /\ eid \div 32 < Len(q.bottom) /\ eid % 32 \in q.bottom[eid \div 32 + 1]

\* C13, a BitSet or QueryEntitySet step: capacity never shrinks; add keeps
\* every set bit and every has, and leaves the smallest doubling of the old
\* capacity that covers the key; has, remove and clear keep the capacity; so
\* the capacity is the smallest doubling of the initial one covering the
\* largest key ever added
C13_SetStep ==
    /\ gset'.capacity >= gset.capacity
    /\ grow'.op = "add" =>
          /\ IsSmallestDoubling(gset.capacity, gset'.capacity, grow'.key + 1)
          /\ grow.kind = "BitSet" => \A k \in GrowKeys : BitSetHas(gset, k) => BitSetHas(gset', k)
          /\ grow.kind = "QueryEntitySet" =>
                /\ \A k \in GrowSlots : SlotBit(gset, k) => SlotBit(gset', k)
                /\ \A e \in GrowHandles :
                      (QESHas(gset, e) /\ getEntityId(e) # grow'.key) => QESHas(gset', e)
    /\ grow'.op \in {"has", "remove", "clear"} => gset'.capacity = gset.capacity
    /\ IsSmallestDoubling(grow'.init, gset'.capacity, grow'.max + 1)

\* C13, a mask table step: no bank shrinks and no word of a bank changes
\* under ensureEntityMaskSize, which leaves the smallest doubling of the old
\* length that covers the slot; so a bank's length is the smallest doubling of
\* the initial one covering the largest slot ever asked for
C13_MaskStep ==
    /\ \A b \in GrowBanks : Len(gset'[b + 1]) >= Len(gset[b + 1])
    /\ grow'.op = "ensure" =>
          /\ \A b \in GrowBanks : \A i \in 0..(Len(gset[b + 1]) - 1) :
                ReadWord(gset'[b + 1], i) = ReadWord(gset[b + 1], i)
          /\ \E b \in GrowBanks :
                /\ IsSmallestDoubling(Len(gset[b + 1]), Len(gset'[b + 1]), grow'.key + 1)
                /\ \A c \in GrowBanks \ {b} : gset'[c + 1] = gset[c + 1]
    /\ \A b \in GrowBanks :
          IsSmallestDoubling(grow'.init, Len(gset'[b + 1]), grow'.max[b] + 1)

\* C13: growth of a BitSet, a QueryEntitySet and a mask bank never shrinks,
\* keeps every bit and reaches the smallest doubling that covers the index
\* asked for; no other call changes the capacity
C13_GrowthKeepsAndDoubles ==
    [][/\ grow.kind \in {"BitSet", "QueryEntitySet"} => C13_SetStep
       /\ grow.kind = "masks" => C13_MaskStep]_vars

\* a BitSet holding two keys has just grown by more than one doubling
C13_Witness ==
    /\ grow.kind = "BitSet" /\ grow.op = "add"
    /\ gset.capacity >= 4 * grow.init
    /\ grow.key >= 2 * grow.init
    /\ gset.count >= 3

\* a QueryEntitySet that grew by more than one doubling kept a handle through
\* a remove
C13_ReachedQES ==
    /\ grow.kind = "QueryEntitySet" /\ grow.op = "remove"
    /\ gset.capacity >= 4 * grow.init
    /\ gset.cursor >= 1

\* a mask bank that grew by more than one doubling kept a set trait bit
C13_ReachedMasks ==
    /\ grow.kind = "masks" /\ grow.op = "ensure"
    /\ \E b \in GrowBanks : Len(gset[b + 1]) >= 4 * grow.init /\ ReadWord(gset[b + 1], 1) # {}

-----------------------------------------------------------------------------
(* Properties of the query matcher *)

\* the mask word the matcher uses for touched bank i of the last call
TouchedMask(i) ==
    EntityMaskOf(qworld.entityMasks, qres.query.generations[i], getEntityId(qres.entity))

\* the three per-bank conditions, as stated
BankMatches(t, m) ==
    /\ (m \cap t.forbidden) = {}
    /\ (m \cap t.required) = t.required
    /\ t.or = {} \/ (m \cap t.or) # {}

\* C14: for a query touching at least one trait, checkQuery returns true iff
\* every touched bank passes the forbidden, required and or conditions on the
\* entity's mask word
C14_CheckQueryIffBanksMatch ==
    (qres.call = "checkQuery" /\ qres.query.traitCount > 0) =>
        /\ ~qres.out.threw
        /\ qres.out.ret <=>
              \A i \in 1..Len(qres.query.generations) :
                 BankMatches(qres.query.staticBitmasks[i], TouchedMask(i))

\* touched bank i of the last call has no mask array in the world, or one
\* that does not reach the entity's slot
BankMissing(i) ==
    LET g == qres.query.generations[i]
    IN \/ g >= Len(qworld.entityMasks)
       \/ getEntityId(qres.entity) >= Len(qworld.entityMasks[g + 1])

\* the mask table with every bank present and long enough for every slot, the
\* added words being zero
Padded(entityMasks) ==
    [b \in 1..2 |-> CopyInto(ZeroWords(8), IF b <= Len(entityMasks) THEN entityMasks[b] ELSE <<>>)]

\* C15: when a touched bank's mask array is absent or too short, checkQuery
\* does not throw and answers as for a mask word of 0: false when such a bank
\* has a non-empty required or or-mask, true when every touched bank is such a
\* bank and only forbids
C15_MissingBankReadsZero ==
    (/\ qres.call = "checkQuery"
     /\ qres.query.traitCount > 0
     /\ \E i \in 1..Len(qres.query.generations) : BankMissing(i)) =>
        /\ ~qres.out.threw
        /\ qres.out = checkQuery(Padded(qworld.entityMasks), qres.query, qres.entity)
        /\ (\E i \in 1..Len(qres.query.generations) :
               /\ BankMissing(i)
               /\ qres.query.staticBitmasks[i].required # {}
                  \/ qres.query.staticBitmasks[i].or # {}) => ~qres.out.ret
        /\ (\A i \in 1..Len(qres.query.generations) :
               /\ BankMissing(i)
               /\ qres.query.staticBitmasks[i].required = {}
               /\ qres.query.staticBitmasks[i].or = {}
               /\ qres.query.staticBitmasks[i].forbidden # {}) => qres.out.ret

\* a query over two banks matched an entity holding traits of bank 0 while
\* bank 1, which it only forbids, has no mask array
C15_Witness ==
    /\ qres.call = "checkQuery"
    /\ Len(qres.query.generations) = 2
    /\ Len(qworld.entityMasks) = 1
    /\ TouchedMask(1) # {}
    /\ qres.query.staticBitmasks[2].forbidden # {}
    /\ qres.out.ret

\* every relation filter of the last call's query holds for its entity
AllFiltersHold ==
    \A i \in 1..Len(qres.query.relationFilters) :
       hasRelationPair(qworld.edges, qres.entity, qres.query.relationFilters[i])

\* C16: with a relation filter list, checkQueryWithRelations returns true iff
\* checkQuery does and every filter holds, and checkQueryTrackingWithRelations
\* returns true iff checkQueryTracking does and every filter holds
C16_RelationsIffCheckAndFilters ==
    /\ (qres.call = "checkQueryWithRelations" /\ qres.query.hasFilters) =>
          /\ ~qres.out.threw
          /\ qres.out.ret <=>
                /\ checkQuery(qworld.entityMasks, qres.query, qres.entity).ret
                /\ AllFiltersHold
    /\ (qres.call = "checkQueryTrackingWithRelations" /\ qres.query.hasFilters) =>
          /\ ~qres.out.threw
          /\ qres.out.ret <=>
                /\ checkQueryTracking(qworld.entityMasks, qres.query, qres.entity,
                                       QueryEvent.type, QueryEvent.generationId,
                                       QueryEvent.bitflag).ret
                /\ AllFiltersHold

\* a query with two relation filters matched an entity for which both hold
C16_Witness ==
    /\ qres.call = "checkQueryWithRelations"
    /\ qres.query.hasFilters
    /\ Len(qres.query.relationFilters) = 2
    /\ Len(qres.query.generations) = 2
    /\ qres.out.ret

\* the first check of the last call: checkQuery, or checkQueryTracking for
\* the tracking variant
FirstCheckPassed ==
    IF qres.call = "checkQueryWithRelations"
    THEN checkQuery(qworld.entityMasks, qres.query, qres.entity).ret
    ELSE checkQueryTracking(qworld.entityMasks, qres.query, qres.entity, QueryEvent.type,
                            QueryEvent.generationId, QueryEvent.bitflag).ret

\* C17: no relation lookup is made for an entity that fails the bitmask (or
\* tracking) check; the filters are looked up in order, and every lookup but
\* the last one made has held, so none follows a failed one
C17_CheapCheckBeforeLookups ==
    qres.call \in {"checkQueryWithRelations", "checkQueryTrackingWithRelations"} =>
        /\ ~FirstCheckPassed => qres.lookups = <<>>
        /\ \A j \in 1..Len(qres.lookups) : qres.lookups[j] = j - 1
        /\ \A j \in 1..(Len(qres.lookups) - 1) :
              hasRelationPair(qworld.edges, qres.entity, qres.query.relationFilters[j])
        /\ Len(qres.lookups) <= Len(qres.query.relationFilters)

\* the first of two filters failed for an entity that passed the tracking
\* check, and only that filter was looked up
C17_Witness ==
    /\ qres.call = "checkQueryTrackingWithRelations"
    /\ FirstCheckPassed
    /\ Len(qres.query.relationFilters) = 2
    /\ qres.lookups = <<0>>
    /\ ~qres.out.ret /\ ~qres.out.threw

\* C18: for a query whose relationFilters is absent both relation variants
\* return false instead of throwing, whatever the entity
C18_AbsentFiltersDoNotThrow ==
    (/\ qres.call \in {"checkQueryWithRelations", "checkQueryTrackingWithRelations"}
     /\ ~qres.query.hasFilters) =>
        /\ ~qres.out.threw
        /\ ~qres.out.ret

\* a {required, forbidden, or} triple with all three words zero
EmptyTriple(t) == t.required = {} /\ t.forbidden = {} /\ t.or = {}

\* C21: in a query touching several banks, a bank whose triple is entirely
\* empty is skipped: checkQuery returns true iff every bank with a non-empty
\* triple passes its conditions
C21_EmptyTripleIsSkipped ==
    (/\ qres.call = "checkQuery"
     /\ Len(qres.query.generations) > 1
     /\ \E i \in 1..Len(qres.query.generations) : EmptyTriple(qres.query.staticBitmasks[i])) =>
        /\ ~qres.out.threw
        /\ qres.out.ret <=>
              \A i \in 1..Len(qres.query.generations) :
                 \/ EmptyTriple(qres.query.staticBitmasks[i])
                 \/ BankMatches(qres.query.staticBitmasks[i], TouchedMask(i))

\* C22: for a query touching one bank, the fast path returns what the general
\* loop returns for that bank, whatever the triple and the mask word
C22_FastPathIsLoopBody ==
    (/\ qres.call = "checkQuery"
     /\ qres.query.traitCount > 0
     /\ Len(qres.query.generations) = 1) =>
        /\ ~qres.out.threw
        /\ qres.out.ret = CheckBanks(qworld.entityMasks, qres.query,
                                     getEntityId(qres.entity), 0)

-----------------------------------------------------------------------------
(* Properties of the growth loops *)

\* C31: the growth loop of BitSet.add, of QueryEntitySet.add and of
\* ensureEntityMaskSize returns after finitely many doublings, for every
\* capacity >= 0 of the structure and every index
C31_GrowthLoopsTerminate ==
    [](loop.pc = "while" => <>(loop.pc = "returned"))

====
